---- MODULE Spec2Model ----
(***************************************************************************)
(* tempjacleaner: Japanese text extraction, rule checking, fix application *)
(* and the incremental scan cache, as state machines.                      *)
(*                                                                         *)
(* Text is a sequence of Unicode code points (Python str), offsets are     *)
(* 0-based and half-open as in the source.  Optional[str] None is the      *)
(* sequence NoneStr, which holds no code point.                            *)
(***************************************************************************)
EXTENDS Integers, Sequences, FiniteSets, TLC

(* ------------------------------------------------------------------ *)
(* Bounds of the exploration                                           *)
(* ------------------------------------------------------------------ *)
MaxLen == 3
MaxIssues == 2
MaxTextLen == 4
MaxFiles == 2
MaxRuns == 2
MaxStamp == 1
MaxItems == 2
MaxLoads == 2
MaxPassLen == 5
MaxPasses == 3
MaxPieces == 4
MaxAdvPieces == 3
MaxThreshold == 3
MaxLines == 4
MaxSentenceLen == 6
MaxLimit == 3
MaxStyleLines == 5
MaxStyleThreshold == 2

(* ------------------------------------------------------------------ *)
(* Python str helpers                                                  *)
(* ------------------------------------------------------------------ *)
NoneStr == <<-1>>

Truthy(s) == s # NoneStr /\ s # <<>>

\* text[a:b]
Sub(s, a, b) ==
    LET lo == IF a < 0 THEN 0 ELSE a
        hi == IF b > Len(s) THEN Len(s) ELSE b
    IN  IF lo >= hi THEN <<>> ELSE SubSeq(s, lo + 1, hi)

AllIn(s, S) == \A i \in 1..Len(s) : s[i] \in S

HasAny(s, S) == \E i \in 1..Len(s) : s[i] \in S

\* s.startswith(p)
StartsWith(s, p) == Len(p) <= Len(s) /\ SubSeq(s, 1, Len(p)) = p

\* s.find(p, from), -1 when absent (0-based)
Find(s, p, from) ==
    LET hits == {i \in from..(Len(s) - Len(p)) : Sub(s, i, i + Len(p)) = p}
    IN  IF hits = {} THEN -1 ELSE CHOOSE i \in hits : \A j \in hits : i <= j

\* p in s
Contains(s, p) == Find(s, p, 0) >= 0

RECURSIVE CountFrom(_, _, _)
CountFrom(s, p, from) ==
    LET i == Find(s, p, from)
    IN  IF i < 0 THEN 0 ELSE 1 + CountFrom(s, p, i + (IF Len(p) = 0 THEN 1 ELSE Len(p)))

\* s.count(p): non-overlapping occurrences
StrCount(s, p) == CountFrom(s, p, 0)

RECURSIVE Replace(_, _, _)
\* s.replace(p, r) for non-empty p
Replace(s, p, r) ==
    LET i == Find(s, p, 0)
    IN  IF i < 0 THEN s
        ELSE Sub(s, 0, i) \o r \o Replace(Sub(s, i + Len(p), Len(s)), p, r)

RECURSIVE Join(_)
\* "".join(parts)
Join(parts) == IF parts = <<>> THEN <<>> ELSE Head(parts) \o Join(Tail(parts))

\* the set of sequences over S of length lo..hi
SeqsOf(S, lo, hi) == UNION {[1..n -> S] : n \in lo..hi}

(* ------------------------------------------------------------------ *)
(* Character classes of the regular expressions (code point ranges)    *)
(* ------------------------------------------------------------------ *)
Hira == 12353..12435                 \* [U+3041-U+3093]
Kata == 12449..12534                 \* [U+30A1-U+30F6]
Kanji == 19968..40869                \* [U+4E00-U+9FA5]
HiraWide == 12353..12438             \* U+3041 <= ch <= U+3096
KataWide == 12449..12538             \* U+30A1 <= ch <= U+30FA
KanaBlock == 12352..12543            \* [U+3040-U+30FF]
CJKUnified == 19968..40959           \* [U+4E00-U+9FFF]
AsciiLetter == (65..90) \cup (97..122)
AsciiDigit == 48..57
\* [U+3041-U+3093 U+30A1-U+30F6]
KanaLetters == Hira \cup Kata
\* [U+3041-U+3093 U+30A1-U+30F6 U+4E00-U+9FA5]
KanaKanji == Hira \cup Kata \cup Kanji
\* U+4E00..U+9FA5, U+3041..U+3096, U+30A1..U+30FA
JpScript == Kanji \cup HiraWide \cup KataWide
\* [U+3040-U+30FF U+4E00-U+9FFF]
JpBlock == KanaBlock \cup CJKUnified
\* [A-Za-z0-9_], [A-Za-z_], [A-Z0-9_]
IdentChar == AsciiLetter \cup AsciiDigit \cup {95}
IdentStart == AsciiLetter \cup {95}
UpperChar == (65..90) \cup AsciiDigit \cup {95}
\* [A-Za-z0-9._%+-], [A-Za-z0-9.-]
EmailLocal == AsciiLetter \cup AsciiDigit \cup {46, 95, 37, 43, 45}
EmailHost == AsciiLetter \cup AsciiDigit \cup {46, 45}
\* Python's \s for str patterns
WS == {9, 10, 11, 12, 13, 28, 29, 30, 31, 32, 133, 160, 5760, 8232, 8233, 8239, 8287, 12288}
        \cup (8192..8202)
\* the code points the model names
Ch == [touten |-> 12289, kuten |-> 12290, wtouten |-> 65292, wkuten |-> 65294,
       bang |-> 33, wbang |-> 65281, quest |-> 63, wquest |-> 65311,
       space |-> 32, wspace |-> 12288, tab |-> 9, nl |-> 10,
       chouon |-> 12540, nakaguro |-> 12539, slash |-> 47, wslash |-> 65295,
       hyphen |-> 45, whyphen |-> 65293, dot |-> 46, ellipsis |-> 8230,
       dquote |-> 34, squote |-> 39, hash |-> 35, star |-> 42, backslash |-> 92,
       backtick |-> 96, tame |-> 28858, morau |-> 36016, no |-> 12398, ka |-> 12363,
       lower_a |-> 97, nao |-> 23578]

(* ------------------------------------------------------------------ *)
(* fixer.py: the per-rule repair functions                             *)
(* ------------------------------------------------------------------ *)
\* length of the longest prefix of s made of characters of S
PrefixLen(s, S) ==
    LET ks == {k \in 0..Len(s) : \A i \in 1..k : s[i] \in S}
    IN  CHOOSE k \in ks : \A j \in ks : j <= k

RECURSIVE SubRuns(_, _, _, _)
\* re.sub(r"[S]{n,}", r, s)
SubRuns(s, S, n, r) ==
    IF s = <<>> THEN <<>>
    ELSE LET k == PrefixLen(s, S)
         IN  IF k >= n THEN r \o SubRuns(Sub(s, k, Len(s)), S, n, r)
             ELSE <<Head(s)>> \o SubRuns(Tail(s), S, n, r)

RECURSIVE SubPair(_, _, _, _)
\* re.sub(r"[A][B]+", r, s)
SubPair(s, A, B, r) ==
    IF s = <<>> THEN <<>>
    ELSE LET k == PrefixLen(Tail(s), B)
         IN  IF Head(s) \in A /\ k >= 1 THEN r \o SubPair(Sub(s, k + 1, Len(s)), A, B, r)
             ELSE <<Head(s)>> \o SubPair(Tail(s), A, B, r)

\* s.lstrip(), s.rstrip(), s.strip()
LStrip(s) == Sub(s, PrefixLen(s, WS), Len(s))

RStrip(s) ==
    LET ks == {k \in 0..Len(s) : \A i \in (k + 1)..Len(s) : s[i] \in WS}
    IN  Sub(s, 0, CHOOSE k \in ks : \A j \in ks : k <= j)

Strip(s) == LStrip(RStrip(s))

\* unicodedata.normalize("NFKC", s) on the half-width kana, the full-width ASCII
\* block and the ideographic space; the other characters of the model are stable
HalfKana == 65382..65439
HalfKanaTable == <<
    12530, 12449, 12451, 12453, 12455, 12457, 12515, 12517, 12519, 12483, 12540,
    12450, 12452, 12454, 12456, 12458, 12459, 12461, 12463, 12465, 12467, 12469,
    12471, 12473, 12475, 12477, 12479, 12481, 12484, 12486, 12488, 12490, 12491,
    12492, 12493, 12494, 12495, 12498, 12501, 12504, 12507, 12510, 12511, 12512,
    12513, 12514, 12516, 12518, 12520, 12521, 12522, 12523, 12524, 12525, 12527,
    12531, 12441, 12442>>
Voiceable == {
    12363, 12365, 12367, 12369, 12371, 12373, 12375, 12377, 12379, 12381, 12383,
    12385, 12388, 12390, 12392, 12399, 12402, 12405, 12408, 12411, 12445, 12459,
    12461, 12463, 12465, 12467, 12469, 12471, 12473, 12475, 12477, 12479, 12481,
    12484, 12486, 12488, 12495, 12498, 12501, 12504, 12507, 12541}
SemiVoiceable == {12399, 12402, 12405, 12408, 12411, 12495, 12498, 12501, 12504, 12507}

NFKCChar(c) ==
    IF c \in HalfKana THEN HalfKanaTable[c - 65381]
    ELSE IF c \in 65281..65374 THEN c - 65248
    ELSE IF c = Ch.wspace THEN Ch.space
    ELSE c

RECURSIVE Compose(_)
Compose(s) ==
    IF Len(s) < 2 THEN s
    ELSE IF s[2] = 12441 /\ s[1] \in Voiceable
         THEN <<s[1] + 1>> \o Compose(Sub(s, 2, Len(s)))
    ELSE IF s[2] = 12442 /\ s[1] \in SemiVoiceable
         THEN <<s[1] + 2>> \o Compose(Sub(s, 2, Len(s)))
    ELSE <<Head(s)>> \o Compose(Tail(s))

_normalize_alnum_kana(s) == Compose([i \in 1..Len(s) |-> NFKCChar(s[i])])

_compress_run(s, prefer_fullwidth) ==
    IF s = <<>> THEN s
    ELSE IF prefer_fullwidth \in {s[i] : i \in 1..Len(s)} THEN <<prefer_fullwidth>>
    ELSE <<s[1]>>

_fix_double_particles(s) == IF Len(s) = 2 /\ s[1] = s[2] THEN <<s[1]>> ELSE s

COLLOQ_MAP ==
    (<<12392, 12363, 12373>> :> <<12394, 12393>>) @@
    (<<12392, 12363>> :> <<12394, 12393>>) @@
    (<<12387, 12413, 12373>> :> <<12398, 12424, 12358, 12394, 24615, 36074>>) @@
    (<<12387, 12413, 12356>> :> <<12398, 12424, 12358, 12394>>) @@
    (<<12415, 12383, 12356, 12394>> :> <<12398, 12424, 12358, 12394>>) @@
    (<<12415, 12383, 12356>> :> <<12398, 12424, 12358, 12384>>)

_fix_colloquial(s) == IF s \in DOMAIN COLLOQ_MAP THEN COLLOQ_MAP[s] ELSE s

\* kanari, totemo, sugoku, hijouni
AdverbPairs == <<
    <<(<<12363, 12394, 12426>>), (<<12392, 12390, 12418>>)>>,
    <<(<<12363, 12394, 12426>>), (<<12377, 12372, 12367>>)>>,
    <<(<<12392, 12390, 12418>>), (<<12377, 12372, 12367>>)>>,
    <<(<<38750, 24120, 12395>>), (<<12392, 12390, 12418>>)>>,
    <<(<<38750, 24120, 12395>>), (<<12377, 12372, 12367>>)>> >>

_fix_double_adverb(s) ==
    LET hit(p) == StartsWith(s, p[1]) /\ StartsWith(LStrip(Sub(s, Len(p[1]), Len(s))), p[2])
        hits == {i \in 1..Len(AdverbPairs) : hit(AdverbPairs[i])}
        ws == {i \in 1..Len(s) : s[i] \in WS}
    IN  IF hits # {} THEN AdverbPairs[CHOOSE i \in hits : \A j \in hits : i <= j][2]
        ELSE IF ws # {}
             THEN LET i == CHOOSE i \in ws : \A j \in ws : i <= j
                  IN  Sub(s, i - 1 + PrefixLen(Sub(s, i - 1, Len(s)), WS), Len(s))
        ELSE s

_fix_punct_mixed(s) == Replace(Replace(s, <<Ch.wkuten>>, <<Ch.kuten>>), <<Ch.wtouten>>, <<Ch.touten>>)

_fix_space_before_punct(s) == <<>>

_fix_ellipsis_ascii(s) == SubRuns(s, {Ch.dot}, 2, <<Ch.ellipsis>>)

_fix_long_dash(s) == SubRuns(s, {Ch.chouon}, 2, <<Ch.chouon>>)

_fix_repeat_char(s) ==
    IF Ch.touten \in {s[i] : i \in 1..Len(s)} THEN <<Ch.touten>>
    ELSE IF Ch.kuten \in {s[i] : i \in 1..Len(s)} THEN <<Ch.kuten>>
    ELSE IF HasAny(s, {Ch.wbang, Ch.bang}) THEN _compress_run(s, Ch.wbang)
    ELSE IF HasAny(s, {Ch.wquest, Ch.quest}) THEN _compress_run(s, Ch.wquest)
    ELSE IF s # <<>> THEN <<s[1]>> ELSE s

RECURSIVE CjkInnerFrom(_, _)
CjkInnerFrom(s, i) ==
    IF i > Len(s) THEN <<>>
    ELSE LET k == PrefixLen(Sub(s, i - 1, Len(s)), {Ch.space})
         IN  IF k > 0 /\ i > 1 /\ i + k <= Len(s) /\ s[i - 1] \in JpBlock /\ s[i + k] \in JpBlock
             THEN CjkInnerFrom(s, i + k)
             ELSE <<s[i]>> \o CjkInnerFrom(s, i + 1)

_fix_cjk_inner_space(s) == CjkInnerFrom(s, 1)

_fix_multi_spaces(s) == SubRuns(s, WS, 2, <<Ch.space>>)

_fix_punct_order(s) ==
    SubPair(SubPair(s, {Ch.kuten, Ch.wkuten}, {Ch.touten, Ch.wtouten}, <<Ch.kuten>>),
            {Ch.touten, Ch.wtouten}, {Ch.kuten, Ch.wkuten}, <<Ch.touten>>)

_fix_kango_to_hiragana(s) ==
    Replace(Replace(s, <<Ch.tame>>, <<12383, 12417>>), <<Ch.morau>>, <<12418, 12425>>)

(* ------------------------------------------------------------------ *)
(* checker.py: Issue                                                   *)
(* ------------------------------------------------------------------ *)
\* rule_id is <<prefix, name>> ("LT_" + ruleId, "ADV_" + ..., "NLP_" + ...);
\* rule_id None is NoRule
NoRule == <<"", "">>

Issue(start, end, snippet, message, suggestion, severity, rule_id) ==
    [start |-> start, end |-> end, snippet |-> snippet, message |-> message,
     suggestion |-> suggestion, severity |-> severity, rule_id |-> rule_id]

(* ------------------------------------------------------------------ *)
(* fixer.py: context filter, suggestion computation                    *)
(* ------------------------------------------------------------------ *)
\* Python's \w for str patterns, on the blocks the model uses
WordChar == AsciiLetter \cup AsciiDigit \cup {95} \cup (12293..12295) \cup (12321..12329)
            \cup (12337..12341) \cup (12344..12348) \cup (12353..12438) \cup (12445..12447)
            \cup (12449..12538) \cup (12540..12543) \cup (13312..19903) \cup (19968..40959)
            \cup (65296..65305) \cup (65313..65338) \cup (65345..65370) \cup (65382..65470)

Lower(c) == IF c \in 65..90 THEN c + 32 ELSE c

\* \b before position i (1-based) of s, i in 1..Len(s)+1
WordBoundary(s, i) ==
    (i > 1 /\ s[i - 1] \in WordChar) # (i <= Len(s) /\ s[i] \in WordChar)

\* _URL_RE.search(ctx): https?://|ftp://|www\. , IGNORECASE
_URL_RE(ctx) ==
    LET low == [i \in 1..Len(ctx) |-> Lower(ctx[i])]
    IN  \/ Contains(low, <<104, 116, 116, 112, 58, 47, 47>>)
        \/ Contains(low, <<104, 116, 116, 112, 115, 58, 47, 47>>)
        \/ Contains(low, <<102, 116, 112, 58, 47, 47>>)
        \/ Contains(low, <<119, 119, 119, 46>>)

\* _EMAIL_RE.search(ctx): [A-Za-z0-9._%+-]+@[A-Za-z0-9.-]+\.[A-Za-z]{2,}
_EMAIL_RE(ctx) ==
    \E i \in 2..Len(ctx) : \E j \in (i + 2)..(Len(ctx) - 2) :
        /\ ctx[i] = 64
        /\ ctx[i - 1] \in EmailLocal
        /\ \A k \in (i + 1)..(j - 1) : ctx[k] \in EmailHost
        /\ ctx[j] = 46
        /\ ctx[j + 1] \in AsciiLetter
        /\ ctx[j + 2] \in AsciiLetter

\* _CODE_HINT_RE.search(ctx): `[^`]+`|\b[A-Za-z_][A-Za-z0-9_]*\(\)|::{1,2}|<[^>]+>
_CODE_HINT_RE(ctx) ==
    LET n == Len(ctx)
    IN  \/ \E i \in 1..n : \E j \in (i + 2)..n :
              /\ ctx[i] = Ch.backtick
              /\ ctx[j] = Ch.backtick
              /\ \A k \in (i + 1)..(j - 1) : ctx[k] # Ch.backtick
        \/ \E i \in 1..n : \E k \in i..(n - 2) :
              /\ WordBoundary(ctx, i)
              /\ ctx[i] \in IdentStart
              /\ \A m \in i..k : ctx[m] \in IdentChar
              /\ ctx[k + 1] = 40
              /\ ctx[k + 2] = 41
        \/ Contains(ctx, <<58, 58>>)
        \/ \E i \in 1..n : \E j \in (i + 2)..n :
              /\ ctx[i] = 60
              /\ ctx[j] = 62
              /\ \A k \in (i + 1)..(j - 1) : ctx[k] # 62

\* _UPPER_TOKEN_RE.search(ctx): \b[A-Z][A-Z0-9_]{2,}\b
_UPPER_TOKEN_RE(ctx) ==
    \E i \in 1..Len(ctx) : \E k \in (i + 2)..Len(ctx) :
        /\ WordBoundary(ctx, i)
        /\ ctx[i] \in 65..90
        /\ \A m \in (i + 1)..k : ctx[m] \in UpperChar
        /\ WordBoundary(ctx, k + 1)

FENCE == <<96, 96, 96>>

_context_allows(issue, full_text) ==
    LET s == issue.start
        e == issue.end
        l == IF s - 100 > 0 THEN s - 100 ELSE 0
        r == IF Len(full_text) < e + 100 THEN Len(full_text) ELSE e + 100
        ctx == Sub(full_text, l, r)
        snip == Sub(full_text, s, e)
        jp == Cardinality({i \in 1..Len(snip) : snip[i] \in JpScript})
        left == StrCount(Sub(full_text, 0, s), FENCE)
        right == StrCount(Sub(full_text, e, Len(full_text)), FENCE)
    IN  IF _URL_RE(ctx) \/ _EMAIL_RE(ctx) THEN FALSE
        ELSE IF _CODE_HINT_RE(ctx) THEN FALSE
        ELSE IF _UPPER_TOKEN_RE(ctx) THEN FALSE
        ELSE IF Len(snip) > 0 /\ 10 * jp < 3 * Len(snip) THEN FALSE
        ELSE IF left % 2 = 1 /\ right % 2 = 1 THEN FALSE
        ELSE TRUE

_is_japanese_char(ch) == ch \in Kanji \/ ch \in HiraWide \/ ch \in KataWide \/ ch = Ch.chouon

\* _jp_ratio(s) as the fraction <<jp, len>>; 0.0 for the empty string
_jp_ratio(s) ==
    IF s = <<>> THEN <<0, 1>>
    ELSE <<Cardinality({i \in 1..Len(s) : _is_japanese_char(s[i])}), Len(s)>>

_lt_suggestion_is_safe(orig, sug) ==
    LET d == Len(orig) - Len(sug)
        ro == _jp_ratio(orig)
        rs == _jp_ratio(sug)
    IN  IF (IF d < 0 THEN -d ELSE d) > 3 THEN FALSE
        ELSE IF HasAny(sug, AsciiLetter) THEN FALSE
        ELSE IF 2 * ro[1] >= ro[2] /\ 10 * rs[1] < 3 * rs[2] THEN FALSE
        ELSE IF \E i \in 1..Len(sug) : sug[i] < 32 THEN FALSE
        ELSE TRUE

\* the substrings _compute_suggestion looks for in issue.message, by message
MsgNeedles(msg) ==
    CASE msg = "zenkaku eisuji ga fukumarete imasu" -> {"zenkaku_eisuji"}
      [] msg = "hankaku kana ga fukumarete imasu" -> {"hankaku_kana"}
      [] msg = "kutoten ga renzoku shite imasu" -> {"kutoten_renzoku"}
      [] msg = "kantanfu ga renzoku shite imasu" -> {"kantanfu_renzoku"}
      [] msg = "gimonfu ga renzoku shite imasu" -> {"gimonfu_renzoku"}
      [] msg = "'tame-ni/tame-no' -> hiragana" -> {"tame_ni", "tame_no", "quote_tame"}
      [] msg = "zenkaku space ga fukumarete imasu" -> {"zenkaku_space"}
      [] msg = "renzoku space wo hitotsu ni" -> {"renzoku_space"}
      [] msg = "nihongo no aida no space wo sakujo" -> {"aida_no_space"}
      [] msg = "kuten chokugo no touten wo sakujo" -> {"kuten_chokugo_touten"}
      [] msg = "touten chokugo no kuten wo sakujo" -> {"touten_chokugo_kuten"}
      [] msg = "henshu miss no kanousei: 'nirishite'" -> {"henshu_miss"}
      [] msg = "mojibake no kanousei" -> {"mojibake"}
      [] OTHER -> {}

TYPO_MAP ==
    (<<26377, 12426, 38627, 12358>> :> <<12354, 12426, 12364, 12392, 12358>>) @@
    (<<26377, 38627, 12358>> :> <<12354, 12426, 12364, 12392, 12358>>) @@
    (<<26377, 12426, 12364, 12392, 12358>> :> <<12354, 12426, 12364, 12392, 12358>>) @@
    (<<24481, 24231, 12356, 12414, 12375>> :> <<12372, 12374, 12356, 12414, 12375, 12383>>) @@
    (<<24481, 24231, 12356, 12414, 12377>> :> <<12372, 12374, 12356, 12414, 12377>>) @@
    (<<24481, 24231, 12356, 12414, 12379, 12435>> :> <<12372, 12374, 12356, 12414, 12379, 12435>>) @@
    (<<20986, 26469, 12414, 12377>> :> <<12391, 12365, 12414, 12377>>) @@
    (<<19979, 12373, 12356, 12414, 12377>> :> <<12367, 12384, 12373, 12356, 12414, 12377>>) @@
    (<<19979, 12373, 12427>> :> <<12367, 12384, 12373, 12427>>) @@
    (<<26410, 12384>> :> <<12414, 12384>>) @@
    (<<26410, 12384, 12395>> :> <<12414, 12384, 12395>>) @@
    (<<30906, 31435>> :> <<30906, 29575>>) @@
    (<<30906, 29575>> :> <<30906, 29575>>) @@
    (<<20197, 22806>> :> <<20197, 22806>>) @@
    (<<24847, 22806>> :> <<24847, 22806>>) @@
    (<<19968, 24540>> :> <<19968, 24540>>) @@
    (<<19968, 27096>> :> <<19968, 27096>>) @@
    (<<26089, 24613>> :> <<33267, 24613>>) @@
    (<<26089, 24613, 12395>> :> <<33267, 24613, 12395>>)

\* re.fullmatch(r"([U+3041-U+3093 U+30A1-U+30F6 U+4E00-U+9FA5]{2,})\1+", s)
IsRepeatedUnit(s) ==
    /\ AllIn(s, KanaKanji)
    /\ \E u \in 2..(Len(s) \div 2) :
          /\ Len(s) % u = 0
          /\ \A i \in (u + 1)..Len(s) : s[i] = s[i - u]

\* part[:idx] + kuten + part[idx+1:] at the touten nearest the middle, or None
SplitLongSentence(part) ==
    LET mid == Len(part) \div 2
        lefts == {i \in 0..(mid - 1) : part[i + 1] = Ch.touten}
        left == IF lefts = {} THEN -1 ELSE CHOOSE i \in lefts : \A j \in lefts : j <= i
        right == Find(part, <<Ch.touten>>, mid)
        idx == IF left # -1 THEN left ELSE right
    IN  IF part = <<>> THEN NoneStr
        ELSE IF idx # -1 THEN Sub(part, 0, idx) \o <<Ch.kuten>> \o Sub(part, idx + 1, Len(part))
        ELSE NoneStr

\* snip[:k] + touten + snip[k:] before the second-to-last "no", or None
BreakNoChain(snip) ==
    LET idxs == {i \in 0..(Len(snip) - 1) : snip[i + 1] = Ch.no}
        last == CHOOSE i \in idxs : \A j \in idxs : j <= i
        k == CHOOSE i \in idxs \ {last} : \A j \in idxs \ {last} : j <= i
    IN  IF Cardinality(idxs) >= 3
        THEN Sub(snip, 0, k) \o <<Ch.touten>> \o Sub(snip, k, Len(snip))
        ELSE NoneStr

RECURSIVE DedupParticles(_)
\* re.sub(r"([wo ni ga he to de ka ra yo ri])\1", r"\1", snip)
DedupParticles(s) ==
    LET ps == {12434, 12395, 12364, 12408, 12392, 12391, 12363, 12425, 12424, 12426}
    IN  IF Len(s) < 2 THEN s
        ELSE IF s[1] \in ps /\ s[2] = s[1] THEN <<s[1]>> \o DedupParticles(Sub(s, 2, Len(s)))
        ELSE <<s[1]>> \o DedupParticles(Tail(s))

_compute_suggestion(issue, full_text, aggressive, use_lt, use_nlp) ==
    LET msg == issue.message
        snip == Sub(full_text, issue.start, issue.end)
        rid == issue.rule_id
        n == Len(snip)
        has(needle) == needle \in MsgNeedles(msg)
        stops == {Ch.touten, Ch.kuten}
        hira == Cardinality({i \in 1..n : snip[i] \in HiraWide})
        kata == Cardinality({i \in 1..n : snip[i] \in KataWide})
    IN
    IF Truthy(issue.suggestion) THEN issue.suggestion
    ELSE IF HasAny(snip, {65533, 160, 8203, 8204, 8205, 65279}) THEN <<>>
    ELSE IF IsRepeatedUnit(snip)
         THEN Sub(snip, 0, n \div (StrCount(snip, Sub(snip, 0, n \div 2)) + 1))
    ELSE IF n >= 3 /\ snip[1] \in KanaLetters /\ AllIn(snip, {snip[1]}) THEN <<snip[1]>>
    ELSE IF n >= 3 /\ snip[1] \in {Ch.touten, Ch.kuten, Ch.wbang, Ch.wquest}
            /\ AllIn(snip, {snip[1]}) THEN <<snip[1], snip[1]>>
    ELSE IF n >= 1 /\ AllIn(snip, {Ch.wspace}) THEN <<Ch.space>>
    ELSE IF n >= 2 /\ AllIn(snip, {Ch.space}) THEN <<Ch.space>>
    ELSE IF n >= 1 /\ AllIn(snip, {Ch.space, Ch.tab, Ch.wspace}) THEN <<>>
    ELSE IF n >= 1 /\ AllIn(snip, HalfKana) THEN _normalize_alnum_kana(snip)
    ELSE IF n >= 2 /\ AllIn(snip, {Ch.chouon}) THEN <<Ch.chouon>>
    ELSE IF n >= 2 /\ AllIn(snip, {Ch.nakaguro}) THEN <<Ch.nakaguro>>
    ELSE IF n >= 2 /\ AllIn(snip, {Ch.wslash, Ch.slash}) THEN <<Ch.slash>>
    ELSE IF n >= 2 /\ AllIn(snip, {Ch.whyphen, Ch.hyphen}) THEN <<Ch.hyphen>>
    ELSE IF n >= 2 /\ (\/ snip[n] \in stops /\ AllIn(Sub(snip, 0, n - 1), WS)
                       \/ snip[1] \in stops /\ AllIn(Sub(snip, 1, n), WS))
         THEN Strip(snip)
    ELSE IF n >= 2 /\ AllIn(snip, KanaLetters) /\ kata > hira
         THEN [i \in 1..n |-> IF snip[i] \in Hira THEN snip[i] + 96 ELSE snip[i]]
    ELSE IF snip \in DOMAIN TYPO_MAP THEN TYPO_MAP[snip]
    ELSE IF n = 2 /\ snip[1] \in {Ch.touten, Ch.wtouten} /\ snip[2] \in {Ch.kuten, Ch.wkuten}
         THEN <<Ch.touten, Ch.kuten>>
    ELSE IF n = 2 /\ snip[1] \in {Ch.kuten, Ch.wkuten} /\ snip[2] \in {Ch.touten, Ch.wtouten}
         THEN <<Ch.kuten>>
    ELSE IF n = 2 /\ snip[1] \in stops /\ snip[2] \in stops THEN <<snip[1]>>
    ELSE IF rid = <<"ADV_", "DOUBLE_PARTICLE">> THEN _fix_double_particles(snip)
    ELSE IF rid = <<"ADV_", "DOUBLE_ADVERB">> THEN _fix_double_adverb(snip)
    ELSE IF rid = <<"ADV_", "COLLOQUIAL">>
         THEN IF aggressive THEN _fix_colloquial(snip) ELSE NoneStr
    ELSE IF rid = <<"ADV_", "PUNCT_MIXED">> THEN _fix_punct_mixed(snip)
    ELSE IF rid = <<"ADV_", "SPACE_BEFORE_PUNCT">> THEN _fix_space_before_punct(snip)
    ELSE IF rid = <<"ADV_", "ELLIPSIS">> THEN _fix_ellipsis_ascii(snip)
    ELSE IF rid = <<"ADV_", "PROLONGED_SOUND">> THEN _fix_long_dash(snip)
    ELSE IF rid = <<"ADV_", "EMPHATIC_ADVERB_MANY">>
         THEN IF aggressive THEN <<>> ELSE NoneStr
    ELSE IF rid = <<"ADV_", "LONG_SENTENCE">> /\ aggressive THEN SplitLongSentence(snip)
    ELSE IF has("zenkaku_eisuji") THEN _normalize_alnum_kana(snip)
    ELSE IF has("hankaku_kana") THEN _normalize_alnum_kana(snip)
    ELSE IF has("kutoten_renzoku") THEN _fix_repeat_char(snip)
    ELSE IF has("kantanfu_renzoku") \/ has("gimonfu_renzoku") THEN _fix_repeat_char(snip)
    ELSE IF has("chouon_renzoku") THEN _fix_long_dash(snip)
    ELSE IF has("tame_ni") \/ has("tame_no") \/ has("quote_tame")
         THEN _fix_kango_to_hiragana(snip)
    ELSE IF has("kanji_morau") THEN _fix_kango_to_hiragana(snip)
    ELSE IF has("zenkaku_space") THEN <<Ch.space>>
    ELSE IF has("renzoku_space") THEN _fix_multi_spaces(snip)
    ELSE IF has("aida_no_space") THEN _fix_cjk_inner_space(snip)
    ELSE IF has("kuten_chokugo_touten") \/ has("touten_chokugo_kuten")
         THEN _fix_punct_order(snip)
    ELSE IF has("henshu_miss") /\ Contains(snip, <<12395, 12426, 12375, 12390>>)
         THEN <<12395, 12375, 12390>>
    ELSE IF has("mojibake") THEN <<>>
    ELSE IF rid[1] = "LT_" /\ use_lt
         THEN IF Truthy(issue.suggestion) /\ _lt_suggestion_is_safe(snip, issue.suggestion)
              THEN issue.suggestion ELSE NoneStr
    ELSE IF rid = <<"NLP_", "NO_CHAIN">> /\ use_nlp /\ aggressive THEN BreakNoChain(snip)
    ELSE IF rid = <<"NLP_", "PARTICLE_RUN">> /\ use_nlp /\ aggressive THEN DedupParticles(snip)
    ELSE NoneStr

(* ------------------------------------------------------------------ *)
(* State                                                               *)
(* ------------------------------------------------------------------ *)
VARIABLES
    pc,          \* position of the running call
    text,        \* the text argument of check_text / apply_fixes
    issues,      \* the Issue objects of the call, by identity (index)
    k,           \* loop position
    \* fixer.py: apply_fixes
    issues0,     \* the Issue objects as they were passed to apply_fixes
    aggressive, context, use_lt, use_nlp,   \* arguments of apply_fixes
    issues2,     \* references (indices into issues) of the kept issues
    out,         \* the list of output pieces, with the slice each came from
    cur,         \* the write cursor
    result,      \* the returned string
    \* checker.py: check_text
    from_code, include_comments, morph,     \* arguments of check_text
    spans,       \* the (start, end, jp) spans of _gather_spans
    subspans,    \* the (s2, e2, jp2) sub-spans of the current span
    hits,        \* for each issue, the rule hit it was built from
    \* checker.py: check_paths, cache.py
    disk,        \* the files: modification time, size, whether scanning raises
    cache_file,  \* the content of .tempjacleaner_cache.json
    use_cache, jobs,                        \* arguments of check_paths
    cache,       \* the loaded cache
    to_scan,     \* the (key, fp) pairs to scan
    results,     \* the issues collected so far
    futs,        \* the submitted futures not yet collected
    run,         \* the number of check_paths calls started
    hist,        \* for each call, what it was given and what it did
    \* checker.py: check_text with the optional providers
    lt, nlp, semantic, spell, dict_words,   \* arguments of check_text
    env,         \* the optional dependencies: what is installed and what works
    \* typo_rules.py, external_rules.py: the rule registry
    _PATTERNS,   \* the module-level registry: None, or the list of patterns
    rule_file,   \* the rule file last given to load_rule_file
    patterns,    \* what load_rule_file did: raised, or the list it returned
    loads,       \* the number of load_rule_file calls
    \* checker.py: check_paths, the worker pool thread by thread
    fut,         \* for each file, the state of its future
    reg_log,     \* the writes to _PATTERNS: the thread that wrote
    cache_log,   \* the writes to the cache map: thread, key, state of the key's future
    saves,       \* the save_cache calls: the states of the futures at the call
    \* repeated scan-and-fix passes
    trace,       \* the text before the first pass and after each pass
    \* advanced_rules
    EMPH_THRESHOLD,  \* the module global of advanced_rules.py
    adv_out,     \* what a direct call of run_advanced yielded
    \* cli.py: main, around check_paths
    args,        \* the parsed options: fix, fix_aggressive, no_cache
    files,       \* the paths iter_files yields for the call
    advanced,    \* argument of check_paths
    read,        \* for each file, the state (mtime, size) its content was read in
    fixed,       \* for each run of main, the files the auto-fix rewrote
    \* advanced_rules: the detectors called with a parameter
    long_limit,  \* the limit given to _detect_long_sentences
    style_mix_threshold,   \* the threshold given to detect_style_mixed_lines
    det_out      \* what the detector returned

sharedVars == <<pc, text, issues, k>>

fixVars == <<issues0, aggressive, context, use_lt, use_nlp, issues2, out, cur, result>>

scanVars == <<from_code, include_comments, morph, spans, subspans, hits>>

pathVars == <<disk, cache_file, use_cache, jobs, cache, to_scan, results, futs, run, hist>>

provVars == <<lt, nlp, semantic, spell, dict_words, env>>

regVars == <<_PATTERNS, rule_file, patterns, loads>>

poolVars == <<fut, reg_log, cache_log, saves>>

passVars == <<trace>>

advVars == <<EMPH_THRESHOLD, adv_out>>

mainVars == <<args, files, advanced, read, fixed>>

detVars == <<long_limit, style_mix_threshold, det_out>>

extVars == <<provVars, mainVars, detVars, regVars, poolVars, passVars, advVars>>

vars == <<sharedVars, fixVars, scanVars, pathVars, extVars>>

\* apply_fixes is not running
FixIdle ==
    /\ issues0 = <<>>
    /\ aggressive = FALSE /\ context = FALSE /\ use_lt = FALSE /\ use_nlp = FALSE
    /\ issues2 = <<>>
    /\ out = <<>>
    /\ cur = 0
    /\ result = NoneStr

\* check_text is not running
ScanIdle ==
    /\ from_code = FALSE /\ include_comments = FALSE /\ morph = FALSE
    /\ spans = <<>>
    /\ subspans = <<>>
    /\ hits = <<>>

\* check_paths is not running
PathIdle ==
    /\ disk = <<>>
    /\ cache_file = [kind |-> "absent"]
    /\ use_cache = FALSE /\ jobs = 1
    /\ cache = [kind |-> "dict", map |-> <<>>]
    /\ to_scan = <<>>
    /\ results = <<>>
    /\ futs = {}
    /\ run = 0
    /\ hist = <<>>

\* no optional provider is asked for
ProvIdle ==
    /\ lt = FALSE /\ nlp = FALSE /\ semantic = FALSE /\ spell = FALSE
    /\ dict_words = <<>>
    /\ env = <<>>

\* the registry is not seeded and no rule file was loaded
RegIdle ==
    /\ _PATTERNS = [none |-> TRUE, list |-> <<>>]
    /\ rule_file = [is_file |-> FALSE, top |-> "array", items |-> <<>>]
    /\ patterns = [raised |-> FALSE, list |-> <<>>]
    /\ loads = 0

\* no pool was started
PoolIdle ==
    /\ fut = <<>>
    /\ reg_log = <<>>
    /\ cache_log = <<>>
    /\ saves = <<>>

\* no pass was made
PassIdle == trace = <<>>

\* advanced_rules.py line 45: EMPH_THRESHOLD: int = 2; run_advanced not called
AdvIdle == EMPH_THRESHOLD = 2 /\ adv_out = <<>>

\* an absent optional argument
NoneInt == [none |-> TRUE, val |-> 0]

\* main is not running
MainIdle ==
    /\ args = [fix |-> FALSE, fix_aggressive |-> FALSE, no_cache |-> FALSE]
    /\ files = {}
    /\ advanced = FALSE
    /\ read = <<>>
    /\ fixed = <<>>

\* no detector was called on its own
DetIdle == long_limit = NoneInt /\ style_mix_threshold = NoneInt /\ det_out = <<>>

ExtIdle == ProvIdle /\ MainIdle /\ DetIdle /\ RegIdle /\ PoolIdle /\ PassIdle /\ AdvIdle

(* ------------------------------------------------------------------ *)
(* fixer.py: apply_fixes                                               *)
(* ------------------------------------------------------------------ *)
\* characters and issue shapes the fixer is explored on
FixChars == {Ch.no, Ch.touten}

IssueKinds == {
    [message |-> "kyuu hyouki", suggestion |-> <<Ch.ka>>, severity |-> "INFO", rule_id |-> NoRule],
    [message |-> "kutoten chokuzen no space", suggestion |-> <<>>, severity |-> "WARN",
     rule_id |-> <<"ADV_", "SPACE_BEFORE_PUNCT">>],
    [message |-> "LanguageTool", suggestion |-> <<Ch.lower_a>>, severity |-> "INFO",
     rule_id |-> <<"LT_", "RULE">>],
    [message |-> "renzoku suru joshi", suggestion |-> NoneStr, severity |-> "WARN",
     rule_id |-> <<"ADV_", "DOUBLE_PARTICLE">>],
    [message |-> "joshi ga renzoku", suggestion |-> NoneStr, severity |-> "INFO",
     rule_id |-> <<"NLP_", "PARTICLE_RUN">>]}

\* the issues with 0 <= start <= end <= len(text)
IssuesOn(t) ==
    {Issue(sp[1], sp[2], Sub(t, sp[1], sp[2]), kd.message, kd.suggestion, kd.severity, kd.rule_id) :
        sp \in {x \in (0..Len(t)) \X (0..Len(t)) : x[1] <= x[2]}, kd \in IssueKinds}

InitFix ==
    /\ pc = "filter"
    /\ text \in SeqsOf(FixChars, 0, MaxLen)
    /\ issues \in SeqsOf(IssuesOn(text), 0, MaxIssues)
    /\ issues0 = issues
    /\ aggressive \in BOOLEAN
    /\ context \in BOOLEAN
    /\ use_lt \in BOOLEAN
    /\ use_nlp \in BOOLEAN
    /\ k = 1
    /\ issues2 = <<>>
    /\ out = <<>>
    /\ cur = 0
    /\ result = NoneStr
    /\ ScanIdle
    /\ PathIdle
    /\ ExtIdle

\* lines 301-314: one iteration of the first loop
FilterIssue ==
    /\ pc = "filter"
    /\ k <= Len(issues)
    /\ LET i == issues[k]
           sug == _compute_suggestion(i, text, aggressive, use_lt, use_nlp)
       IN  IF context /\ ~_context_allows(i, text)
           THEN UNCHANGED <<issues, issues2>>
           ELSE IF sug = NoneStr
           THEN UNCHANGED <<issues, issues2>>
           ELSE /\ issues' = [issues EXCEPT ![k].suggestion = sug]
                /\ issues2' = Append(issues2, k)
    /\ k' = k + 1
    /\ UNCHANGED <<pc, text, issues0, aggressive, context, use_lt, use_nlp, out, cur, result>>
    /\ UNCHANGED <<scanVars, pathVars, extVars>>

\* the sort key of line 315
SortKeyLeq(a, b) == a.start < b.start \/ (a.start = b.start /\ a.end <= b.end)

RECURSIVE SortRefs(_, _)
\* list.sort(key=...): stable
SortRefs(refs, objs) ==
    IF refs = <<>> THEN <<>>
    ELSE LET firsts == {j \in 1..Len(refs) :
                            \A m \in 1..Len(refs) : SortKeyLeq(objs[refs[j]], objs[refs[m]])}
             j == CHOOSE j \in firsts : \A m \in firsts : j <= m
         IN  <<refs[j]>> \o SortRefs(SubSeq(refs, 1, j - 1) \o SubSeq(refs, j + 1, Len(refs)), objs)

\* line 315-317
SortIssues ==
    /\ pc = "filter"
    /\ k > Len(issues)
    /\ issues2' = SortRefs(issues2, issues)
    /\ out' = <<>>
    /\ cur' = 0
    /\ k' = 1
    /\ pc' = "splice"
    /\ UNCHANGED <<text, issues, issues0, aggressive, context, use_lt, use_nlp, result>>
    /\ UNCHANGED <<scanVars, pathVars, extVars>>

\* mutant of line 319: an issue is skipped only when it ends before the cursor
OverlapSkipByEnd(i, cursor) == i.end < cursor

\* line 319: the overlap test
OverlapSkip(i, cursor) == i.start < cursor

\* line 322: the text written for an applied issue
Written(i, t) == IF i.suggestion # <<>> /\ i.suggestion # NoneStr THEN i.suggestion
                 ELSE Sub(t, i.start, i.end)

\* mutant of line 323: the cursor stays at the start of the applied issue
CursorAtStart(i) == i.start

\* line 323: the cursor after an applied issue
CursorAfter(i) == i.end

Piece(kind, from, to, s, ref) == [kind |-> kind, from |-> from, to |-> to, s |-> s, ref |-> ref]

\* lines 318-323: one iteration of the second loop
SpliceIssue ==
    /\ pc = "splice"
    /\ k <= Len(issues2)
    /\ LET i == issues[issues2[k]]
       IN  IF OverlapSkip(i, cur)
           THEN UNCHANGED <<out, cur>>
           ELSE /\ out' = out \o <<Piece("copy", cur, i.start, Sub(text, cur, i.start), 0),
                                   Piece("write", i.start, i.end, Written(i, text), issues2[k])>>
                /\ cur' = CursorAfter(i)
    /\ k' = k + 1
    /\ UNCHANGED <<pc, text, issues, issues0, aggressive, context, use_lt, use_nlp, issues2, result>>
    /\ UNCHANGED <<scanVars, pathVars, extVars>>

\* lines 324-325
AppendTail ==
    /\ pc = "splice"
    /\ k > Len(issues2)
    /\ out' = Append(out, Piece("copy", cur, Len(text), Sub(text, cur, Len(text)), 0))
    /\ result' = Join([j \in 1..Len(out') |-> out'[j].s])
    /\ pc' = "done"
    /\ UNCHANGED <<text, issues, issues0, aggressive, context, use_lt, use_nlp, k, issues2, cur>>
    /\ UNCHANGED <<scanVars, pathVars, extVars>>

NextFix == FilterIssue \/ SortIssues \/ SpliceIssue \/ AppendTail

SpecFix == InitFix /\ [][NextFix]_vars

(* ------------------------------------------------------------------ *)
(* apply_fixes: properties                                             *)
(* ------------------------------------------------------------------ *)
\* the positions in out of the pieces written for an applied issue
Applied == {j \in 1..Len(out) : out[j].kind = "write"}

\* the source positions an applied issue replaced
Covered(p) == \E j \in Applied : out[j].from <= p /\ p < out[j].to

RECURSIVE ShiftOf(_, _)
\* how far the applied issues among out[1..j] that end at or before p move position p
ShiftOf(j, p) ==
    IF j = 0 THEN 0
    ELSE ShiftOf(j - 1, p) +
         (IF out[j].kind = "write" /\ out[j].to <= p
          THEN Len(out[j].s) - (out[j].to - out[j].from) ELSE 0)

Shift(p) == ShiftOf(Len(out), p)

\* the end of the last applied span, 0 when nothing was applied
LastApplied ==
    IF Applied = {} THEN 0
    ELSE LET j == CHOOSE j \in Applied : \A m \in Applied : m <= j IN out[j].to

\* C1: the result of apply_fixes is a well-formed splice.  The pieces of the
\* output tile the source in order (each piece starts where the previous one
\* ended, the first at 0, the last ends at len(text)); every source character
\* outside the spans of the applied issues appears in the result exactly once,
\* at its position shifted by the length changes of the applied issues before
\* it, so in its original order; the result holds nothing else than these
\* characters and the replacements; and the tail after the last applied span
\* ends the result unchanged.
C1_WellFormedSplice ==
    pc = "done" =>
        LET n == Len(text) IN
        /\ out[1].from = 0
        /\ out[Len(out)].to = n
        /\ \A j \in 1..Len(out) : out[j].from <= out[j].to
        /\ \A j \in 1..(Len(out) - 1) : out[j].to = out[j + 1].from
        /\ \A p \in 0..(n - 1) : ~Covered(p) =>
              /\ p + Shift(p) + 1 \in 1..Len(result)
              /\ result[p + Shift(p) + 1] = text[p + 1]
        /\ \A p \in 0..(n - 1) : \A q \in (p + 1)..(n - 1) :
              ~Covered(p) /\ ~Covered(q) => p + Shift(p) < q + Shift(q)
        /\ Len(result) = n + Shift(n)
        /\ Sub(result, Len(result) - (n - LastApplied), Len(result)) = Sub(text, LastApplied, n)

\* C1 witness: an issue in the middle of the text was replaced by other text,
\* with source text copied before it and a tail copied after it
C1_Witness ==
    /\ pc = "done"
    /\ \E j \in Applied :
          /\ out[j].from > 0
          /\ out[j].to < Len(text)
          /\ out[j].from < out[j].to
          /\ out[j].s # Sub(text, out[j].from, out[j].to)
    /\ result # text

\* C2: overlap resolution is first-match-wins.  No two applied issues overlap,
\* and when exactly two replaceable issues a, b (in sort order) overlap, only
\* the replacement of a is applied: the result is text[:a.start], the
\* replacement of a, and text[a.end:] unchanged, which holds the part of b
\* beyond a.
C2_FirstMatchWins ==
    pc = "done" =>
        /\ \A i \in Applied : \A j \in Applied : i < j => out[i].to <= out[j].from
        /\ Len(issues2) = 2 =>
              LET a == issues[issues2[1]]
                  b == issues[issues2[2]]
              IN  b.start < a.end =>
                    /\ Applied = {2}
                    /\ out[2].ref = issues2[1]
                    /\ result = Sub(text, 0, a.start) \o out[2].s \o Sub(text, a.end, Len(text))

\* C2 witness: two replaceable issues [s1,e1) and [s2,e2) with s1 < s2 < e1 < e2,
\* both carrying a replacement that differs from the text at their span
C2_Witness ==
    /\ pc = "done"
    /\ Len(issues2) = 2
    /\ LET a == issues[issues2[1]]
           b == issues[issues2[2]]
       IN  /\ a.start < b.start /\ b.start < a.end /\ a.end < b.end
           /\ Truthy(a.suggestion) /\ a.suggestion # Sub(text, a.start, a.end)
           /\ Truthy(b.suggestion) /\ b.suggestion # Sub(text, b.start, b.end)
           /\ result = Sub(text, 0, a.start) \o a.suggestion \o Sub(text, a.end, Len(text))

\* the text at the span of the issue passed at position j is left as it was
SpanUnchanged(j) ==
    \A m \in Applied : out[m].ref = j => out[m].s = Sub(text, out[m].from, out[m].to)

\* C8: external-provider issues are resolved to an edit only when enabled.  With
\* use_lt = False the span of every issue whose rule_id starts with "LT_" is
\* left unchanged, and with use_nlp = False the span of every issue whose
\* rule_id starts with "NLP_" is left unchanged, whatever its suggestion.
C8_ProviderGated ==
    pc = "done" =>
        \A j \in 1..Len(issues0) :
            /\ (issues0[j].rule_id[1] = "LT_" /\ ~use_lt) => SpanUnchanged(j)
            /\ (issues0[j].rule_id[1] = "NLP_" /\ ~use_nlp) => SpanUnchanged(j)

\* C9: with use_lt = True the replacement of an LT_ issue is applied only when
\* _lt_suggestion_is_safe accepts it against the original snippet; an unsafe
\* replacement leaves the span unchanged.
C9_LtOnlyWhenSafe ==
    (pc = "done" /\ use_lt) =>
        \A m \in Applied :
            (issues0[out[m].ref].rule_id[1] = "LT_"
                /\ out[m].s # Sub(text, out[m].from, out[m].to))
            => _lt_suggestion_is_safe(Sub(text, out[m].from, out[m].to), out[m].s)

\* C10: with aggressive = False only issues that carry a suggestion from their
\* detector are replaced; an issue passed with suggestion None leaves its span
\* unchanged.
C10_DefaultNeedsSuggestion ==
    (pc = "done" /\ ~aggressive) =>
        \A j \in 1..Len(issues0) : issues0[j].suggestion = NoneStr => SpanUnchanged(j)

(* ------------------------------------------------------------------ *)
(* japanese_extractor.py, comments.py: span extraction                 *)
(* ------------------------------------------------------------------ *)
\* [U+3040-U+30FF U+3400-U+9FFF U+F900-U+FAFF U+3000-U+303F]
JpBlockHead == (12352..12543) \cup (13312..40959) \cup (63744..64255) \cup (12288..12351)
\* [A-Za-z0-9 U+3040-U+30FF U+3400-U+9FFF U+F900-U+FAFF U+3000-U+303F]
JpBlockTail == AsciiLetter \cup AsciiDigit \cup JpBlockHead

RECURSIVE Matches(_, _)
\* re.finditer: the (start, end) of the matches, leftmost first, the search resuming
\* at the end of the previous match; ends[i] is the end of the match that starts at
\* offset i - 1, or -1
Matches(ends, i) ==
    IF i > Len(ends) THEN <<>>
    ELSE IF ends[i] < 0 THEN Matches(ends, i + 1)
    ELSE <<(<<i - 1, ends[i]>>)>> \o Matches(ends, ends[i] + 1)

\* (start, end, group(0)) of each match
Groups(s, ends) ==
    LET m == Matches(ends, 1)
    IN  [j \in 1..Len(m) |-> <<m[j][1], m[j][2], Sub(s, m[j][1], m[j][2])>>]

\* the offset of the first c at or after offset p, len(s) when there is none
UntilChar(s, c, p) == LET i == Find(s, <<c>>, p) IN IF i < 0 THEN Len(s) ELSE i

\* _JP_BLOCK_RE.match at offset p: a head character and the longest run of tail characters
_JP_BLOCK_RE(s, p) ==
    IF s[p + 1] \in JpBlockHead
    THEN p + 1 + PrefixLen(Sub(s, p + 1, Len(s)), JpBlockTail)
    ELSE -1

RECURSIVE StringClose(_, _, _)
\* (?:(?=\\)\\.|(?!\1).)*?\1 from offset p after the opening quote q: the end of the
\* match, or -1
StringClose(s, p, q) ==
    IF p >= Len(s) THEN -1
    ELSE IF s[p + 1] = q THEN p + 1
    ELSE LET esc == IF s[p + 1] = Ch.backslash /\ p + 1 < Len(s) /\ s[p + 2] # Ch.nl
                    THEN StringClose(s, p + 2, q) ELSE -1
         IN  IF esc >= 0 THEN esc
             ELSE IF s[p + 1] # Ch.nl THEN StringClose(s, p + 1, q)
             ELSE -1

\* _STRING_RE.match at offset p
_STRING_RE(s, p) ==
    IF s[p + 1] \in {Ch.dquote, Ch.squote} THEN StringClose(s, p + 1, s[p + 1]) ELSE -1

extract_string_literals(code) ==
    Groups(code, [i \in 1..Len(code) |-> _STRING_RE(code, i - 1)])

extract_japanese_blocks(t) ==
    Groups(t, [i \in 1..Len(t) |-> _JP_BLOCK_RE(t, i - 1)])

\* mutant of lines 35-36: the opening quote is not counted
InnerOffsetNoQuote(s_start) == s_start

\* lines 35-36: the offset of literal[1:-1] in the code
InnerOffset(s_start) == s_start + 1

\* the blocks of inner, moved by base
ShiftedBlocks(inner, base) ==
    LET b == extract_japanese_blocks(inner)
    IN  [j \in 1..Len(b) |-> <<base + b[j][1], base + b[j][2], b[j][3]>>]

extract_japanese_from_code(code) ==
    LET lits == extract_string_literals(code)
    IN  Join([j \in 1..Len(lits) |->
                ShiftedBlocks(Sub(lits[j][3], 1, Len(lits[j][3]) - 1), InnerOffset(lits[j][1]))])

\* _LINE_HASH, _LINE_SLASH, _BLOCK .match at offset p
_LINE_HASH(s, p) == IF s[p + 1] = Ch.hash THEN UntilChar(s, Ch.nl, p + 1) ELSE -1

_LINE_SLASH(s, p) ==
    IF StartsWith(Sub(s, p, Len(s)), <<Ch.slash, Ch.slash>>) THEN UntilChar(s, Ch.nl, p + 2) ELSE -1

_BLOCK(s, p) ==
    IF StartsWith(Sub(s, p, Len(s)), <<Ch.slash, Ch.star>>)
    THEN LET e == Find(s, <<Ch.star, Ch.slash>>, p + 2) IN IF e < 0 THEN -1 ELSE e + 2
    ELSE -1

extract_comments(t) ==
    Groups(t, [i \in 1..Len(t) |-> _LINE_HASH(t, i - 1)]) \o
    Groups(t, [i \in 1..Len(t) |-> _LINE_SLASH(t, i - 1)]) \o
    Groups(t, [i \in 1..Len(t) |-> _BLOCK(t, i - 1)])

\* mutant of line 57: the comments are gathered whatever include_comments says
_gather_spans_always(t, fromCode, includeComments) ==
    LET cs == extract_comments(t)
    IN  (IF fromCode THEN extract_japanese_from_code(t) ELSE extract_japanese_blocks(t)) \o
        Join([j \in 1..Len(cs) |-> ShiftedBlocks(cs[j][3], cs[j][1])])

_gather_spans(t, fromCode, includeComments) ==
    LET cs == extract_comments(t)
    IN  (IF fromCode THEN extract_japanese_from_code(t) ELSE extract_japanese_blocks(t)) \o
        (IF includeComments
         THEN Join([j \in 1..Len(cs) |-> ShiftedBlocks(cs[j][3], cs[j][1])])
         ELSE <<>>)

(* ------------------------------------------------------------------ *)
(* typo_rules.py, morph.py                                             *)
(* ------------------------------------------------------------------ *)
\* the characters check_text is explored on
TextChars == {Ch.dquote, Ch.hash, Ch.nl, Ch.lower_a, Ch.no, Ch.nao, Ch.touten}

\* the built-in patterns that match some text over TextChars (lines 54 and 87),
\* each an alternation of literals
_simple_patterns == <<
    [alts |-> <<(<<Ch.nao>>)>>, message |-> "'nao' -> hiragana wo suishou",
     suggestion |-> <<12394, 12362>>, severity |-> "INFO", rule_id |-> NoRule],
    [alts |-> <<(<<Ch.touten, Ch.touten>>), (<<Ch.kuten, Ch.kuten>>)>>,
     message |-> "kutoten ga renzoku shite imasu",
     suggestion |-> NoneStr, severity |-> "WARN", rule_id |-> NoRule] >>

\* pattern.match at offset p: the first alternative that matches
PatternEnd(pat, s, p) ==
    LET ok == {a \in 1..Len(pat.alts) : StartsWith(Sub(s, p, Len(s)), pat.alts[a])}
    IN  IF ok = {} THEN -1
        ELSE p + Len(pat.alts[CHOOSE a \in ok : \A b \in ok : a <= b])

\* TypoPattern.finditer
finditer(pat, t) ==
    LET g == Groups(t, [i \in 1..Len(t) |-> PatternEnd(pat, t, i - 1)])
    IN  [j \in 1..Len(g) |->
            [start |-> g[j][1], end |-> g[j][2], match |-> g[j][3], message |-> pat.message,
             suggestion |-> pat.suggestion, severity |-> pat.severity, rule_id |-> pat.rule_id]]

run_rules(pats, t) == Join([j \in 1..Len(pats) |-> finditer(pats[j], t)])

RECURSIVE SplitAt(_, _)
\* t cut at the offsets of cuts
SplitAt(t, cuts) ==
    IF cuts = {} THEN <<t>>
    ELSE LET m == CHOOSE x \in cuts : \A y \in cuts : x <= y
         IN  <<Sub(t, 0, m)>> \o SplitAt(Sub(t, m, Len(t)), {x - m : x \in cuts \ {m}})

\* what the tokenizer may return for t: the surfaces of consecutive tokens
Surfaces(t) == {SplitAt(t, cuts) : cuts \in SUBSET (1..(Len(t) - 1))}

RECURSIVE TokenSpans(_, _, _)
\* lines 44-52: the (pos, end, surf) of the surfaces, searched from idx on
TokenSpans(t, surfs, idx) ==
    IF surfs = <<>> THEN <<>>
    ELSE LET surf == Head(surfs)
             found == Find(t, surf, idx)
             pos == IF found < 0 THEN idx ELSE found
             end == pos + Len(surf)
         IN  <<(<<pos, end, surf>>)>> \o TokenSpans(t, Tail(surfs), end)

tokenize_with_spans(t, surfs) == TokenSpans(t, surfs, 0)

(* ------------------------------------------------------------------ *)
(* checker.py: check_text                                              *)
(* ------------------------------------------------------------------ *)
InitText ==
    /\ pc = "gather"
    /\ text \in SeqsOf(TextChars, 0, MaxTextLen)
    /\ from_code \in BOOLEAN
    /\ include_comments \in BOOLEAN
    /\ morph \in BOOLEAN          \* morph and morph_available()
    /\ issues = <<>>
    /\ k = 0
    /\ spans = <<>>
    /\ subspans = <<>>
    /\ hits = <<>>
    /\ FixIdle
    /\ PathIdle
    /\ ExtIdle

\* lines 78-79
GatherSpans ==
    /\ pc = "gather"
    /\ spans' = _gather_spans(text, from_code, include_comments)
    /\ k' = 1
    /\ pc' = "span"
    /\ UNCHANGED <<text, issues, from_code, include_comments, morph, subspans, hits>>
    /\ UNCHANGED <<fixVars, pathVars, extVars>>

\* lines 83-92: the sub-spans of the tokens
TokenizeSpan ==
    /\ pc = "span"
    /\ k <= Len(spans)
    /\ morph
    /\ \E surfs \in Surfaces(spans[k][3]) :
          LET ts == tokenize_with_spans(spans[k][3], surfs)
          IN  subspans' = [j \in 1..Len(ts) |->
                              <<spans[k][1] + ts[j][1], spans[k][1] + ts[j][2], ts[j][3]>>]
    /\ pc' = "rules"
    /\ UNCHANGED <<text, issues, k, from_code, include_comments, morph, spans, hits>>
    /\ UNCHANGED <<fixVars, pathVars, extVars>>

\* lines 93-94
WholeSpan ==
    /\ pc = "span"
    /\ k <= Len(spans)
    /\ ~morph
    /\ subspans' = <<spans[k]>>
    /\ pc' = "rules"
    /\ UNCHANGED <<text, issues, k, from_code, include_comments, morph, spans, hits>>
    /\ UNCHANGED <<fixVars, pathVars, extVars>>

\* lines 98-100: the hits of one sub-span, with the sub-span they were found in
HitsOf(sub) ==
    LET hs == run_rules(_simple_patterns, sub[3])
    IN  [j \in 1..Len(hs) |-> [s2 |-> sub[1], e2 |-> sub[2], jp2 |-> sub[3], hit |-> hs[j]]]

\* lines 99-110: the Issue of a hit
IssueOf(h, t) ==
    LET rel_start == h.s2 + h.hit.start
        rel_end == h.s2 + h.hit.end
    IN  Issue(rel_start, rel_end, Sub(t, rel_start, rel_end), h.hit.message,
              h.hit.suggestion, h.hit.severity, h.hit.rule_id)

\* lines 96-110: the loop over the sub-spans of the current span
RunRules ==
    /\ pc = "rules"
    /\ LET hs == Join([j \in 1..Len(subspans) |-> HitsOf(subspans[j])])
       IN  /\ hits' = hits \o hs
           /\ issues' = issues \o [j \in 1..Len(hs) |-> IssueOf(hs[j], text)]
    /\ k' = k + 1
    /\ pc' = "span"
    /\ UNCHANGED <<text, from_code, include_comments, morph, spans, subspans>>
    /\ UNCHANGED <<fixVars, pathVars, extVars>>

\* line 191
ReturnIssues ==
    /\ pc = "span"
    /\ k > Len(spans)
    /\ pc' = "scanned"
    /\ UNCHANGED <<text, issues, k>>
    /\ UNCHANGED <<scanVars, fixVars, pathVars, extVars>>

NextText == GatherSpans \/ TokenizeSpan \/ WholeSpan \/ RunRules \/ ReturnIssues

SpecText == InitText /\ [][NextText]_vars

Files == 1..MaxFiles

\* file_fingerprint: f"{st_mtime_ns}:{st_size}"
file_fingerprint(st) == <<st.mtime, st.size>>

\* dict.get of a key the dict does not hold
Missing == <<-1, -1>>

\* a dict from keys to fingerprints
Dict(m) == [kind |-> "dict", map |-> m]

EmptyDict == Dict([f \in Files |-> Missing])

\* the cache file: absent, unreadable, not JSON, a JSON value that is no object
\* (a list), or a JSON object
NonDict(kind) == [kind |-> kind, map |-> [f \in Files |-> Missing]]

CacheFiles ==
    {NonDict("absent"), NonDict("unreadable"), NonDict("invalid"), NonDict("list")} \cup
    {Dict(m) : m \in [Files -> {Missing, <<0, 0>>}]}

\* mutant of cache.py lines 8-15: every load is a cold start
load_cache_cold(file) == EmptyDict

\* load_cache: {} unless the file parses as JSON, then whatever value it holds
load_cache(file) ==
    IF file.kind \in {"absent", "unreadable", "invalid"} THEN EmptyDict ELSE file

\* what check_file returns for a file whose scan does not raise
FileIssues(f) == <<f>>

\* jobs
JobChoices == {1, 2}

InitPaths ==
    /\ pc = "idle"
    /\ disk \in [Files -> [mtime : {0}, size : {0}, raises : BOOLEAN]]
    /\ cache_file \in CacheFiles
    /\ use_cache = FALSE /\ jobs = 1
    /\ cache = EmptyDict
    /\ to_scan = <<>>
    /\ results = <<>>
    /\ futs = {}
    /\ run = 0
    /\ hist = <<>>
    /\ text = <<>> /\ issues = <<>> /\ k = 0
    /\ FixIdle
    /\ ScanIdle
    /\ ExtIdle

\* the file system changes between two calls
Touch ==
    /\ pc = "idle"
    /\ \E f \in Files :
          /\ disk[f].mtime < MaxStamp
          /\ disk' = [disk EXCEPT ![f].mtime = @ + 1]
    /\ UNCHANGED <<cache_file, use_cache, jobs, cache, to_scan, results, futs, run, hist>>
    /\ UNCHANGED <<sharedVars, fixVars, scanVars, extVars>>

Resize ==
    /\ pc = "idle"
    /\ \E f \in Files :
          /\ disk[f].size < MaxStamp
          /\ disk' = [disk EXCEPT ![f].size = @ + 1]
    /\ UNCHANGED <<cache_file, use_cache, jobs, cache, to_scan, results, futs, run, hist>>
    /\ UNCHANGED <<sharedVars, fixVars, scanVars, extVars>>

\* lines 242-247
StartRun ==
    /\ pc = "idle"
    /\ run < MaxRuns
    /\ \E uc \in BOOLEAN : \E j \in JobChoices :
          /\ use_cache' = uc
          /\ jobs' = j
          /\ cache' = IF uc THEN load_cache(cache_file) ELSE EmptyDict
          /\ hist' = Append(hist, [use_cache |-> uc, jobs |-> j, cache_file0 |-> cache_file,
                                   loaded |-> cache', disk |-> disk, scanned |-> <<>>,
                                   outcome |-> "running", results |-> <<>>])
    /\ to_scan' = <<>>
    /\ results' = <<>>
    /\ run' = run + 1
    /\ k' = 1
    /\ pc' = "fingerprint"
    /\ UNCHANGED <<disk, cache_file, futs, text, issues>>
    /\ UNCHANGED <<fixVars, scanVars, extVars>>

\* lines 249-254: one iteration; cache.get raises when the loaded value is no dict
FingerprintFile ==
    /\ pc = "fingerprint"
    /\ k <= MaxFiles
    /\ LET fp == file_fingerprint(disk[k])
       IN  IF use_cache /\ cache.kind # "dict"
           THEN /\ pc' = "idle"
                /\ hist' = [hist EXCEPT ![run].outcome = "raised"]
                /\ UNCHANGED <<to_scan, k>>
           ELSE /\ to_scan' = IF use_cache /\ cache.map[k] = fp THEN to_scan
                              ELSE Append(to_scan, <<k, fp>>)
                /\ k' = k + 1
                /\ UNCHANGED <<pc, hist>>
    /\ UNCHANGED <<disk, cache_file, use_cache, jobs, cache, results, futs, run, text, issues>>
    /\ UNCHANGED <<fixVars, scanVars, extVars>>

\* lines 265-283: every entry of to_scan is submitted to the pool
SubmitAll ==
    /\ pc = "fingerprint"
    /\ k > MaxFiles
    /\ jobs > 1
    /\ futs' = {to_scan[j] : j \in 1..Len(to_scan)}
    /\ pc' = "parallel"
    /\ UNCHANGED <<disk, cache_file, use_cache, jobs, cache, to_scan, results, run, hist>>
    /\ UNCHANGED <<text, issues, k>>
    /\ UNCHANGED <<fixVars, scanVars, extVars>>

\* lines 284-292: futures are collected in completion order; a raising scan counts as no issues
CollectFuture ==
    /\ pc = "parallel"
    /\ \E e \in futs :
          LET key == e[1]
              fp == e[2]
              res == IF disk[key].raises THEN <<>> ELSE FileIssues(key)
          IN  /\ results' = results \o res
              /\ cache' = IF use_cache THEN Dict([cache.map EXCEPT ![key] = fp]) ELSE cache
              /\ futs' = futs \ {e}
              /\ hist' = [hist EXCEPT ![run].scanned = Append(@, key)]
    /\ UNCHANGED <<disk, cache_file, use_cache, jobs, to_scan, run>>
    /\ UNCHANGED <<pc, text, issues, k>>
    /\ UNCHANGED <<fixVars, scanVars, extVars>>

\* line 265 false: the else branch
EnterSerial ==
    /\ pc = "fingerprint"
    /\ k > MaxFiles
    /\ ~(jobs > 1)
    /\ k' = 1
    /\ pc' = "serial"
    /\ UNCHANGED <<text, issues>>
    /\ UNCHANGED <<fixVars, scanVars, pathVars, extVars>>

\* lines 293-311: one iteration; an exception of check_file leaves check_paths
SerialScan ==
    /\ pc = "serial"
    /\ k <= Len(to_scan)
    /\ LET key == to_scan[k][1]
           fp == to_scan[k][2]
       IN  IF disk[key].raises
           THEN /\ pc' = "idle"
                /\ hist' = [hist EXCEPT ![run].scanned = Append(@, key),
                                        ![run].outcome = "raised"]
                /\ UNCHANGED <<results, cache, k>>
           ELSE /\ results' = results \o FileIssues(key)
                /\ cache' = IF use_cache THEN Dict([cache.map EXCEPT ![key] = fp]) ELSE cache
                /\ hist' = [hist EXCEPT ![run].scanned = Append(@, key)]
                /\ k' = k + 1
                /\ UNCHANGED pc
    /\ UNCHANGED <<disk, cache_file, use_cache, jobs, to_scan, futs, run, text, issues>>
    /\ UNCHANGED <<fixVars, scanVars, extVars>>

\* the serial loop is exhausted, or there was nothing to submit
LoopDone ==
    \/ pc = "serial" /\ k > Len(to_scan)
    \/ pc = "parallel" /\ futs = {}

\* mutant of cache.py line 19: an empty object is written
save_cache_empty(c) == EmptyDict

\* save_cache: the file becomes the JSON object of the dict
save_cache(c) == c

\* lines 313-317
SaveAndReturn ==
    /\ LoopDone
    /\ cache_file' = IF use_cache THEN save_cache(cache) ELSE cache_file
    /\ hist' = [hist EXCEPT ![run].outcome = "returned", ![run].results = results]
    /\ pc' = "idle"
    /\ UNCHANGED <<disk, use_cache, jobs, cache, to_scan, results, futs, run>>
    /\ UNCHANGED <<text, issues, k>>
    /\ UNCHANGED <<fixVars, scanVars, extVars>>

NextPaths ==
    \/ Touch
    \/ Resize
    \/ StartRun
    \/ FingerprintFile
    \/ SubmitAll
    \/ CollectFuture
    \/ EnterSerial
    \/ SerialScan
    \/ SaveAndReturn

SpecPaths == InitPaths /\ [][NextPaths]_vars

(* ------------------------------------------------------------------ *)
(* Properties of check_paths                                           *)
(* ------------------------------------------------------------------ *)
\* the latest call has ended, by return or by exception
CallEnded == pc = "idle" /\ run >= 1

\* check_file was called for file f during call r
ScannedIn(r, f) == \E j \in 1..Len(hist[r].scanned) : hist[r].scanned[j] = f

\* the fingerprint file f had when call r started
FingerprintIn(r, f) == file_fingerprint(hist[r].disk[f])

\* the cache loaded by call r holds the current fingerprint of f under its key
HeldIn(r, f) == hist[r].loaded.kind = "dict" /\ hist[r].loaded.map[f] = FingerprintIn(r, f)

\* file f contributed issues to the list call r returned
ContributedIn(r, f) == \E j \in 1..Len(hist[r].results) : hist[r].results[j] = f

\* C4: with use_cache = True a file is skipped (not passed to check_file, no
\* issues from it) if and only if the loaded cache holds its current
\* fingerprint; every other file is scanned and, once its scan has completed,
\* its cache entry is its fingerprint.  With use_cache = False no file is skipped.
C4_SkipIffFingerprintHeld ==
    CallEnded =>
        \A f \in Files :
            IF hist[run].use_cache
            THEN /\ HeldIn(run, f) => ~ScannedIn(run, f) /\ ~ContributedIn(run, f)
                 /\ ~HeldIn(run, f) =>
                       /\ ScannedIn(run, f)
                       /\ ~disk[f].raises =>
                             cache.kind = "dict" /\ cache.map[f] = FingerprintIn(run, f)
            ELSE ScannedIn(run, f)

\* C5: of two consecutive calls with caching enabled, the second one does not
\* scan a file whose modification time and size are what they were at the
\* first call, and scans again a file whose modification time or size changed.
C5_UnchangedScannedOnce ==
    (CallEnded /\ run = 2 /\ hist[1].use_cache /\ hist[2].use_cache) =>
        \A f \in Files :
            IF FingerprintIn(1, f) = FingerprintIn(2, f)
            THEN ~ScannedIn(2, f)
            ELSE ScannedIn(2, f)

\* C6: the cache is advisory.  When the cache file is absent, unreadable or
\* does not parse as a JSON object of fingerprints, and no scan fails, the call
\* returns and it has scanned every file (a cold start).
C6_CacheAdvisory ==
    (/\ CallEnded
     /\ hist[run].use_cache
     /\ hist[run].cache_file0.kind # "dict"
     /\ \A f \in Files : ~disk[f].raises) =>
        /\ hist[run].outcome = "returned"
        /\ \A f \in Files : ScannedIn(run, f) /\ ContributedIn(run, f)

\* C7: failure isolation for every value of jobs.  When the cache could be
\* consulted, a call in which a scan raises still returns; the failing file
\* contributes no issues, every other file that was to be scanned contributes
\* its issues, and with caching the failing file's entry is its fingerprint.
C7_FailureIsolation ==
    (CallEnded /\ hist[run].loaded.kind = "dict") =>
        /\ hist[run].outcome = "returned"
        /\ \A f \in Files :
              ~HeldIn(run, f) =>
                  /\ ContributedIn(run, f) <=> ~disk[f].raises
                  /\ (hist[run].use_cache /\ disk[f].raises) =>
                        cache.map[f] = FingerprintIn(run, f)

(* ------------------------------------------------------------------ *)
(* lt_checker.py, nlp_checker.py, spellcheck.py: the optional providers *)
(* ------------------------------------------------------------------ *)
\* the optional dependencies.  lt: language_tool_python is missing, is installed
\* but cannot construct its tool (no Java, no network), constructs a tool whose
\* check raises, or works; nlp: spacy likewise; rf: rapidfuzz is missing, raises
\* in extractOne, or works; morph: a tokenizer (fugashi or janome) is installed;
\* finds: whether a working provider reports something
Envs == [lt : {"missing", "no_backend", "check_fails", "ok"},
         nlp : {"missing", "load_fails", "call_fails", "ok"},
         rf : {"missing", "extract_fails", "ok"},
         morph : BOOLEAN,
         finds : BOOLEAN]

\* a provider call ends by yielding hits or by an exception
Yields(hs) == [raised |-> FALSE, hits |-> hs]

Raises == [raised |-> TRUE, hits |-> <<>>]

\* the dict a provider yields
ProviderHit(start, end, match, message, suggestion, rule_id) ==
    [start |-> start, end |-> end, match |-> match, message |-> message,
     suggestion |-> suggestion, severity |-> "INFO", rule_id |-> rule_id]

\* run_languagetool: _get_tool is called outside the try
run_languagetool(e, t) ==
    IF e.lt = "missing" THEN Yields(<<>>)
    ELSE IF e.lt = "no_backend" THEN Raises
    ELSE IF e.lt = "check_fails" THEN Yields(<<>>)
    ELSE IF e.finds
         THEN Yields(<<ProviderHit(0, Len(t), t, "LanguageTool", <<Ch.lower_a>>, <<"LT_", "RULE">>)>>)
         ELSE Yields(<<>>)

\* run_nlp: _get_nlp and the call of the pipeline are guarded; the texts explored
\* hold fewer than three 'no', so only the rules over doc can yield
run_nlp(e, t) ==
    IF e.nlp \in {"missing", "load_fails", "call_fails"} THEN Yields(<<>>)
    ELSE IF e.finds
         THEN Yields(<<ProviderHit(0, Len(t), t, "joshi ga renzoku shite imasu", NoneStr,
                                   <<"NLP_", "PARTICLE_RUN">>)>>)
         ELSE Yields(<<>>)

\* [U+3040-U+30FF U+3400-U+9FFF U+F900-U+FAFF U+30FC]
WordReChar == (12352..12543) \cup (13312..40959) \cup (63744..64255)

\* _WORD_RE.match at offset p
_WORD_RE(s, p) ==
    IF s[p + 1] \in WordReChar THEN p + 1 + PrefixLen(Sub(s, p + 1, Len(s)), WordReChar) ELSE -1

_simple_tokens(t) == Groups(t, [i \in 1..Len(t) |-> _WORD_RE(t, i - 1)])

\* lines 84-100 for one token
SpellHit(e, tok, words) ==
    IF Len(tok[3]) <= 1 THEN <<>>
    ELSE IF \E j \in 1..Len(words) : words[j] = tok[3] THEN <<>>
    ELSE IF e.rf = "extract_fails" THEN <<>>
    ELSE IF e.finds
         THEN <<ProviderHit(tok[1], tok[2], tok[3], "tango no goki no kanousei", words[1],
                            <<"SPELL_", "FUZZY">>)>>
         ELSE <<>>

\* run_spellcheck: with a tokenizer installed, the 4-tuples of tokenize_with_spans
\* are unpacked into three names
run_spellcheck(e, t, words) ==
    IF e.rf = "missing" \/ words = <<>> THEN Yields(<<>>)
    ELSE IF e.morph THEN (IF t = <<>> THEN Yields(<<>>) ELSE Raises)
    ELSE LET toks == _simple_tokens(t)
         IN  Yields(Join([j \in 1..Len(toks) |-> SpellHit(e, toks[j], words)]))

(* ------------------------------------------------------------------ *)
(* checker.py: check_text with the optional providers (advanced=False) *)
(* ------------------------------------------------------------------ *)
\* the texts check_text is explored on with providers
ProvTexts == {<<Ch.nao, Ch.no>>, <<Ch.dquote, Ch.nao, Ch.no, Ch.dquote>>,
              <<Ch.hash, Ch.nao>>, <<Ch.no, Ch.no>>}

\* dict_words as check_paths passes it: None, or the words of load_dict
DictChoices == {<<>>, <<(<<Ch.nao, Ch.ka>>)>>}

InitProviders ==
    /\ pc = "gather"
    /\ text \in ProvTexts
    /\ from_code \in BOOLEAN
    /\ include_comments = TRUE
    /\ env \in Envs
    /\ morph \in {m \in BOOLEAN : m => env.morph}    \* morph and morph_available()
    /\ lt \in BOOLEAN /\ nlp \in BOOLEAN /\ semantic \in BOOLEAN /\ spell \in BOOLEAN
    /\ dict_words \in DictChoices
    /\ issues = <<>>
    /\ k = 0
    /\ spans = <<>>
    /\ subspans = <<>>
    /\ hits = <<>>
    /\ FixIdle
    /\ PathIdle
    /\ RegIdle
    /\ PoolIdle
    /\ PassIdle
    /\ MainIdle
    /\ DetIdle
    /\ AdvIdle

\* lines 128-142: if lt and lt_available()
LtPart(sub) ==
    IF lt /\ env.lt # "missing" THEN run_languagetool(env, sub[3]) ELSE Yields(<<>>)

\* lines 144-158: if (nlp or semantic) and nlp_available()
NlpPart(sub) ==
    IF (nlp \/ semantic) /\ env.nlp # "missing" THEN run_nlp(env, sub[3]) ELSE Yields(<<>>)

\* lines 160-174: if spell and spell_available() and dict_words
SpellPart(sub) ==
    IF spell /\ env.rf # "missing" /\ dict_words # <<>>
    THEN run_spellcheck(env, sub[3], dict_words) ELSE Yields(<<>>)

\* some provider call on the sub-span raises
SubspanRaises(sub) == LtPart(sub).raised \/ NlpPart(sub).raised \/ SpellPart(sub).raised

\* the hits of one sub-span: built-in rules, then each enabled provider
SubspanHits(sub) ==
    LET hs == LtPart(sub).hits \o NlpPart(sub).hits \o SpellPart(sub).hits
    IN  HitsOf(sub) \o
        [j \in 1..Len(hs) |-> [s2 |-> sub[1], e2 |-> sub[2], jp2 |-> sub[3], hit |-> hs[j]]]

\* lines 96-174: the loop over the sub-spans of the current span; an exception of a
\* provider leaves check_text
RunProviders ==
    /\ pc = "rules"
    /\ IF \E j \in 1..Len(subspans) : SubspanRaises(subspans[j])
       THEN /\ pc' = "raised"
            /\ UNCHANGED <<hits, issues, k>>
       ELSE LET hs == Join([j \in 1..Len(subspans) |-> SubspanHits(subspans[j])])
            IN  /\ hits' = hits \o hs
                /\ issues' = issues \o [j \in 1..Len(hs) |-> IssueOf(hs[j], text)]
                /\ k' = k + 1
                /\ pc' = "span"
    /\ UNCHANGED <<text, from_code, include_comments, morph, spans, subspans>>
    /\ UNCHANGED <<fixVars, pathVars, extVars>>

NextProviders == GatherSpans \/ TokenizeSpan \/ WholeSpan \/ RunProviders \/ ReturnIssues

SpecProviders == InitProviders /\ [][NextProviders]_vars

\* the issues of the built-in rules over the whole spans of t
BuiltinIssues(t, fromCode, includeComments) ==
    LET sp == _gather_spans(t, fromCode, includeComments)
        hs == Join([j \in 1..Len(sp) |-> HitsOf(sp[j])])
    IN  [j \in 1..Len(hs) |-> IssueOf(hs[j], t)]

\* C11: an optional provider that is unavailable or whose call fails is recovered
\* as an empty result: check_text with providers enabled never ends by an
\* exception, and what it returns holds the issues of the built-in rules.
C11_ProvidersRecovered ==
    /\ pc # "raised"
    /\ (pc = "scanned" /\ ~morph) =>
          SelectSeq(issues, LAMBDA i : i.rule_id = NoRule)
              = BuiltinIssues(text, from_code, include_comments)

(* ------------------------------------------------------------------ *)
(* external_rules.py, typo_rules.py: rule files and the registry       *)
(* ------------------------------------------------------------------ *)
\* item.get("severity") of an item without the key: None, falsy like ""
Omitted == ""

\* the "severity" fields rule files are explored with
SeverityFields == {Omitted, "info", "ERROR", "fatal"}

\* str.upper on the explored severities
Upper(sev) == [info |-> "INFO", ERROR |-> "ERROR", fatal |-> "FATAL"][sev]

\* the elements of the top-level array: rule objects, and a bare string
RuleItems ==
    [kind : {"dict"}, pattern : {<<Ch.no>>}, severity : SeverityFields] \cup
    {[kind |-> "dict", pattern |-> <<40>>, severity |-> Omitted],
     [kind |-> "scalar", pattern |-> <<Ch.no>>, severity |-> Omitted]}

\* rule files: missing, not parseable, parseable with an object or an array on top
RuleFiles ==
    {[is_file |-> FALSE, top |-> "array", items |-> <<>>],
     [is_file |-> TRUE, top |-> "not_json", items |-> <<>>],
     [is_file |-> TRUE, top |-> "object", items |-> <<>>]} \cup
    [is_file : {TRUE}, top : {"array"}, items : SeqsOf(RuleItems, 0, MaxItems)]

\* re.compile succeeds: the explored patterns are literals, or "(" alone
RegexOk(pat) == ~HasAny(pat, {40})

\* lines 60-66: the TypoPattern of a rule object
TypoPattern(item) ==
    [alts |-> <<item.pattern>>, message |-> "", suggestion |-> NoneStr,
     severity |-> IF item.severity = Omitted THEN "WARN" ELSE Upper(item.severity),
     rule_id |-> NoRule]

\* load_rule_file: raises, or returns the patterns of the elements that are objects
load_rule_file(f) ==
    IF ~f.is_file THEN [raised |-> TRUE, list |-> <<>>]
    ELSE IF f.top # "array" THEN [raised |-> TRUE, list |-> <<>>]
    ELSE LET dicts == SelectSeq(f.items, LAMBDA it : it.kind = "dict")
         IN  IF \E j \in 1..Len(dicts) : ~RegexOk(dicts[j].pattern)
             THEN [raised |-> TRUE, list |-> <<>>]
             ELSE [raised |-> FALSE, list |-> [j \in 1..Len(dicts) |-> TypoPattern(dicts[j])]]

\* get_patterns: the registry, seeded with the built-in patterns on first use
get_patterns(reg) == IF reg.none THEN _simple_patterns ELSE reg.list

\* add_patterns
add_patterns(reg, pats) == [none |-> FALSE, list |-> get_patterns(reg) \o pats]

\* the texts scanned with external rules
RuleTexts == {<<Ch.nao, Ch.no>>, <<Ch.no, Ch.touten, Ch.touten>>, <<Ch.ka>>}

InitRules ==
    /\ pc = "idle"
    /\ text = <<>> /\ issues = <<>> /\ k = 0
    /\ RegIdle
    /\ ProvIdle
    /\ MainIdle
    /\ DetIdle
    /\ PoolIdle
    /\ PassIdle
    /\ AdvIdle
    /\ FixIdle
    /\ ScanIdle
    /\ PathIdle

\* cli.py lines 141-144: patterns = load_rule_file(rf)
LoadRuleFile ==
    /\ pc \in {"idle", "scanned"}
    /\ loads < MaxLoads
    /\ \E f \in RuleFiles :
          /\ rule_file' = f
          /\ patterns' = load_rule_file(f)
    /\ loads' = loads + 1
    /\ pc' = "loaded"
    /\ UNCHANGED <<text, issues, k, _PATTERNS>>
    /\ UNCHANGED <<fixVars, scanVars, pathVars, provVars, mainVars, detVars, poolVars, passVars, advVars>>

\* cli.py lines 145-147: the error is reported and the run ends
LoadFailed ==
    /\ pc = "loaded"
    /\ patterns.raised
    /\ pc' = "failed"
    /\ UNCHANGED <<text, issues, k>>
    /\ UNCHANGED <<fixVars, scanVars, pathVars, extVars>>

\* cli.py line 148: add_patterns(patterns)
AddPatterns ==
    /\ pc = "loaded"
    /\ ~patterns.raised
    /\ _PATTERNS' = add_patterns(_PATTERNS, patterns.list)
    /\ pc' = "idle"
    /\ UNCHANGED <<text, issues, k, rule_file, patterns, loads>>
    /\ UNCHANGED <<fixVars, scanVars, pathVars, provVars, mainVars, detVars, poolVars, passVars, advVars>>

\* check_text(t, from_code=False, include_comments=False): run_rules reads the
\* registry through get_patterns, which seeds it
ScanText ==
    /\ pc \in {"idle", "scanned"}
    /\ \E t \in RuleTexts :
          LET sp == _gather_spans(t, from_code, include_comments)
              hs == Join([j \in 1..Len(sp) |->
                        LET h == run_rules(get_patterns(_PATTERNS), sp[j][3])
                        IN  [i \in 1..Len(h) |->
                                [s2 |-> sp[j][1], e2 |-> sp[j][2], jp2 |-> sp[j][3], hit |-> h[i]]]])
          IN  /\ text' = t
              /\ issues' = [j \in 1..Len(hs) |-> IssueOf(hs[j], t)]
    /\ _PATTERNS' = [none |-> FALSE, list |-> get_patterns(_PATTERNS)]
    /\ pc' = "scanned"
    /\ UNCHANGED <<k, rule_file, patterns, loads>>
    /\ UNCHANGED <<fixVars, scanVars, pathVars, provVars, mainVars, detVars, poolVars, passVars, advVars>>

NextRules == LoadRuleFile \/ LoadFailed \/ AddPatterns \/ ScanText

SpecRules == InitRules /\ [][NextRules]_vars

(* ------------------------------------------------------------------ *)
(* Rule files: properties                                              *)
(* ------------------------------------------------------------------ *)
\* the file is unreadable, has no array on top, or holds an invalid regex
Broken(f) ==
    \/ ~f.is_file
    \/ f.top # "array"
    \/ \E j \in 1..Len(f.items) : f.items[j].kind = "dict" /\ ~RegexOk(f.items[j].pattern)

\* pattern pat of the registry matches somewhere in t
MatchesIn(pat, t) == \E a \in 1..Len(pat.alts) : Find(t, pat.alts[a], 0) >= 0

\* C12: load_rule_file is all-or-nothing.  A file that is unreadable, has no
\* array on top or holds an invalid regex raises, and nothing of it is in the
\* registry; any other file yields one pattern per element, in file order, with
\* severity WARN when the element omits it; and a check_text call made after
\* add_patterns applies every pattern of the registry.
C12_AllOrNothing ==
    /\ pc = "loaded" =>
          IF Broken(rule_file) THEN patterns.raised
          ELSE /\ ~patterns.raised
               /\ Len(patterns.list) = Len(rule_file.items)
               /\ \A j \in 1..Len(patterns.list) :
                     /\ patterns.list[j].alts = <<rule_file.items[j].pattern>>
                     /\ rule_file.items[j].severity = Omitted => patterns.list[j].severity = "WARN"
    /\ (pc \in {"loaded", "failed"} /\ loads = 1) =>
          \A j \in 1..Len(_PATTERNS.list) : _PATTERNS.list[j].message # ""
    /\ pc = "scanned" =>
          \A j \in 1..Len(_PATTERNS.list) :
              MatchesIn(_PATTERNS.list[j], text) =>
                  \E i \in 1..Len(issues) :
                      /\ issues[i].message = _PATTERNS.list[j].message
                      /\ issues[i].severity = _PATTERNS.list[j].severity

\* the severities of the spec, in their order
Severities == <<"INFO", "WARN", "ERROR">>

\* C20: every Issue has a severity of {INFO, WARN, ERROR}, whatever the
\* "severity" field of an externally loaded rule holds.
C20_SeverityInOrderedSet ==
    \A i \in 1..Len(issues) : \E j \in 1..Len(Severities) : issues[i].severity = Severities[j]

(* ------------------------------------------------------------------ *)
(* checker.py: check_paths with jobs > 1, thread by thread             *)
(* ------------------------------------------------------------------ *)
\* the registry as the caller left it: never used, or seeded (rules were added)
Registries == {[none |-> TRUE, list |-> <<>>], [none |-> FALSE, list |-> _simple_patterns]}

\* to_scan after the fingerprint loop: the files of S, in the order of files
ToScanOf(S) ==
    SelectSeq([f \in 1..MaxFiles |-> <<f, file_fingerprint([mtime |-> 0, size |-> 0])>>],
              LAMBDA e : e[1] \in S)

InitPool ==
    /\ pc = "submit"
    /\ disk \in [Files -> [mtime : {0}, size : {0}, raises : BOOLEAN]]
    /\ cache_file = NonDict("absent")
    /\ use_cache \in BOOLEAN
    /\ jobs \in {j \in JobChoices : j > 1}
    /\ cache = EmptyDict
    /\ to_scan \in {ToScanOf(S) : S \in SUBSET Files}
    /\ results = <<>>
    /\ futs = {}
    /\ run = 0
    /\ hist = <<>>
    /\ _PATTERNS \in Registries
    /\ rule_file = [is_file |-> FALSE, top |-> "array", items |-> <<>>]
    /\ patterns = [raised |-> FALSE, list |-> <<>>]
    /\ loads = 0
    /\ fut = [f \in Files |-> "none"]
    /\ reg_log = <<>>
    /\ cache_log = <<>>
    /\ saves = <<>>
    /\ text = <<>> /\ issues = <<>> /\ k = 0
    /\ FixIdle
    /\ ScanIdle
    /\ ProvIdle
    /\ MainIdle
    /\ DetIdle
    /\ PassIdle
    /\ AdvIdle

\* the futures a worker thread is running
Running == {f \in Files : fut[f] \in {"running", "saw_none", "scanning"}}

\* lines 266-283: ex.submit for every entry of to_scan
PoolSubmit ==
    /\ pc = "submit"
    /\ fut' = [f \in Files |->
                  IF \E j \in 1..Len(to_scan) : to_scan[j][1] = f THEN "pending" ELSE "none"]
    /\ pc' = "collect"
    /\ UNCHANGED <<text, issues, k, reg_log, cache_log, saves>>
    /\ UNCHANGED <<fixVars, scanVars, pathVars, provVars, mainVars, detVars, regVars, passVars, advVars>>

\* a worker thread takes a queued call of check_file (max_workers=jobs)
WorkerStart ==
    /\ \E f \in Files :
          /\ fut[f] = "pending"
          /\ Cardinality(Running) < jobs
          /\ fut' = [fut EXCEPT ![f] = "running"]
    /\ UNCHANGED <<pc, text, issues, k, reg_log, cache_log, saves>>
    /\ UNCHANGED <<fixVars, scanVars, pathVars, provVars, mainVars, detVars, regVars, passVars, advVars>>

\* typo_rules.py lines 163-164, in the worker: if _PATTERNS is None
WorkerGetPatterns ==
    /\ \E f \in Files :
          /\ fut[f] = "running"
          /\ fut' = [fut EXCEPT ![f] = IF _PATTERNS.none THEN "saw_none" ELSE "scanning"]
    /\ UNCHANGED <<pc, text, issues, k, reg_log, cache_log, saves>>
    /\ UNCHANGED <<fixVars, scanVars, pathVars, provVars, mainVars, detVars, regVars, passVars, advVars>>

\* typo_rules.py line 165, in the worker: _PATTERNS = _simple_patterns()
WorkerSeed ==
    /\ \E f \in Files :
          /\ fut[f] = "saw_none"
          /\ _PATTERNS' = [none |-> FALSE, list |-> _simple_patterns]
          /\ reg_log' = Append(reg_log, f)
          /\ fut' = [fut EXCEPT ![f] = "scanning"]
    /\ UNCHANGED <<pc, text, issues, k, cache_log, saves, rule_file, patterns, loads>>
    /\ UNCHANGED <<fixVars, scanVars, pathVars, provVars, mainVars, detVars, passVars, advVars>>

\* check_file returns or raises: the future is done
WorkerFinish ==
    /\ \E f \in Files :
          /\ fut[f] = "scanning"
          /\ fut' = [fut EXCEPT ![f] = "done"]
    /\ UNCHANGED <<pc, text, issues, k, reg_log, cache_log, saves>>
    /\ UNCHANGED <<fixVars, scanVars, pathVars, provVars, mainVars, detVars, regVars, passVars, advVars>>

\* as_completed yields a future whose call has started
CollectStarted(f) == fut[f] \in {"scanning", "done"}

\* line 284: as_completed yields a future that is done
CollectReady(f) == fut[f] = "done"

\* lines 284-292, in the thread that called check_paths
Collect ==
    /\ pc = "collect"
    /\ \E j \in 1..Len(to_scan) :
          LET key == to_scan[j][1]
              fp == to_scan[j][2]
              res == IF disk[key].raises THEN <<>> ELSE FileIssues(key)
          IN  /\ CollectReady(key)
              /\ results' = results \o res
              /\ cache' = IF use_cache THEN Dict([cache.map EXCEPT ![key] = fp]) ELSE cache
              /\ cache_log' = IF use_cache
                              THEN Append(cache_log, [thread |-> "main", key |-> key, state |-> fut[key]])
                              ELSE cache_log
              /\ fut' = [fut EXCEPT ![key] = "collected"]
    /\ UNCHANGED <<pc, text, issues, k, reg_log, saves>>
    /\ UNCHANGED <<disk, cache_file, use_cache, jobs, to_scan, futs, run, hist>>
    /\ UNCHANGED <<fixVars, scanVars, provVars, mainVars, detVars, regVars, passVars, advVars>>

\* lines 313-317, once as_completed is exhausted and the pool is shut down
PoolSave ==
    /\ pc = "collect"
    /\ \A f \in Files : fut[f] \in {"none", "collected"}
    /\ cache_file' = IF use_cache THEN save_cache(cache) ELSE cache_file
    /\ saves' = IF use_cache THEN Append(saves, fut) ELSE saves
    /\ pc' = "returned"
    /\ UNCHANGED <<text, issues, k, fut, reg_log, cache_log>>
    /\ UNCHANGED <<disk, use_cache, jobs, cache, to_scan, results, futs, run, hist>>
    /\ UNCHANGED <<fixVars, scanVars, provVars, mainVars, detVars, regVars, passVars, advVars>>

NextPool ==
    \/ PoolSubmit
    \/ WorkerStart
    \/ WorkerGetPatterns
    \/ WorkerSeed
    \/ WorkerFinish
    \/ Collect
    \/ PoolSave

SpecPool == InitPool /\ [][NextPool]_vars

\* C13: the registry is read-only during scanning.  While the pool of a
\* check_paths call with jobs > 1 is running, the registry is populated, and no
\* worker thread has written it, the seeding of the built-in patterns included.
C13_RegistryReadOnly ==
    pc \in {"collect", "returned"} =>
        /\ ~_PATTERNS.none
        /\ reg_log = <<>>

\* the keys of the cache writes
LoggedKeys == {cache_log[j].key : j \in 1..Len(cache_log)}

\* C14: the cache map is written only by the thread that called check_paths,
\* once per scanned file and only after that file's future is done; no other
\* write reaches the map; and it is saved once, after every submitted future
\* is done.
C14_CacheSingleWriter ==
    /\ \A j \in 1..Len(cache_log) :
          /\ cache_log[j].thread = "main"
          /\ cache_log[j].state = "done"
          /\ \A i \in 1..Len(cache_log) : cache_log[i].key = cache_log[j].key => i = j
    /\ \A f \in Files : (cache.map[f] # Missing) <=> (f \in LoggedKeys)
    /\ Len(saves) <= 1
    /\ \A j \in 1..Len(saves) : \A f \in Files : saves[j][f] \in {"none", "collected"}
    /\ (pc = "returned" /\ use_cache) =>
          /\ Len(saves) = 1
          /\ LoggedKeys = {to_scan[j][1] : j \in 1..Len(to_scan)}
          /\ cache_file = cache

\* C14 witness: a call with caching and two or more submitted files has returned
C14_Witness ==
    /\ pc = "returned"
    /\ use_cache
    /\ Len(to_scan) >= 2
    /\ Len(cache_log) = Len(to_scan)
    /\ Len(saves) = 1

(* ------------------------------------------------------------------ *)
(* Repeated passes: check_text, then apply_fixes on its issues         *)
(* ------------------------------------------------------------------ *)
\* the characters the passes are explored on
PassChars == {Ch.touten, Ch.nao}

\* text = "..."; check_text(text, from_code=False, include_comments=False) and
\* apply_fixes(text, issues), both with their other defaults
InitPasses ==
    /\ pc = "gather"
    /\ text \in SeqsOf(PassChars, 0, MaxPassLen)
    /\ trace = <<text>>
    /\ issues = <<>>
    /\ k = 0
    /\ ScanIdle
    /\ FixIdle
    /\ PathIdle
    /\ ProvIdle
    /\ MainIdle
    /\ DetIdle
    /\ RegIdle
    /\ PoolIdle
    /\ AdvIdle

\* apply_fixes(text, issues) is called with the list check_text returned
BeginFix ==
    /\ pc = "scanned"
    /\ issues0' = issues
    /\ issues2' = <<>>
    /\ out' = <<>>
    /\ cur' = 0
    /\ result' = NoneStr
    /\ k' = 1
    /\ pc' = "filter"
    /\ UNCHANGED <<text, issues, aggressive, context, use_lt, use_nlp>>
    /\ UNCHANGED <<scanVars, pathVars, extVars>>

\* the returned string is the text of the next pass
NextPass ==
    /\ pc = "done"
    /\ Len(trace) <= MaxPasses
    /\ text' = result
    /\ trace' = Append(trace, result)
    /\ issues' = <<>>
    /\ k' = 0
    /\ spans' = <<>>
    /\ subspans' = <<>>
    /\ hits' = <<>>
    /\ pc' = "gather"
    /\ UNCHANGED <<from_code, include_comments, morph>>
    /\ UNCHANGED <<fixVars, pathVars, provVars, mainVars, detVars, regVars, poolVars, advVars>>

NextPasses ==
    \/ GatherSpans
    \/ WholeSpan
    \/ RunRules
    \/ ReturnIssues
    \/ BeginFix
    \/ FilterIssue
    \/ SortIssues
    \/ SpliceIssue
    \/ AppendTail
    \/ NextPass

SpecPasses == InitPasses /\ [][NextPasses]_vars

\* C19: repeated scan-and-fix passes over the built-in rules reach a fixed
\* point within two passes: the third pass returns the text the second returned.
C19_FixedPointInTwoPasses ==
    Len(trace) >= 4 => trace[4] = trace[3]

(* ------------------------------------------------------------------ *)
(* check_text over code with comments                                  *)
(* ------------------------------------------------------------------ *)
\* the fragments the code texts are made of: the comment markers, a newline, a
\* quote, and a match of each built-in rule
CommentPieces == {<<Ch.hash>>, <<Ch.slash, Ch.slash>>, <<Ch.slash, Ch.star>>, <<Ch.star, Ch.slash>>,
                  <<Ch.nl>>, <<Ch.dquote>>, <<Ch.nao>>, <<Ch.touten, Ch.touten>>}

CodeTexts == {Join(ps) : ps \in SeqsOf(CommentPieces, 0, MaxPieces)}

\* check_text(text, from_code=True, include_comments=..., morph=...)
InitComments ==
    /\ pc = "gather"
    /\ text \in CodeTexts
    /\ from_code = TRUE
    /\ include_comments \in BOOLEAN
    /\ morph \in BOOLEAN
    /\ issues = <<>>
    /\ k = 0
    /\ spans = <<>>
    /\ subspans = <<>>
    /\ hits = <<>>
    /\ FixIdle
    /\ PathIdle
    /\ ExtIdle

SpecComments == InitComments /\ [][NextText]_vars

\* an issue is reported for the span [a, b)
ReportedAt(a, b) == \E j \in 1..Len(issues) : issues[j].start = a /\ issues[j].end = b

\* [a, b) lies between an opening quote and a later quote of the same kind
InsideQuotes(a, b) ==
    \E q \in 1..Len(text) : \E r \in 1..Len(text) :
        /\ text[q] \in {Ch.dquote, Ch.squote}
        /\ text[r] = text[q]
        /\ q <= a
        /\ b < r

\* C18: with from_code=True and include_comments=True a rule match inside a #,
\* // or block comment is reported (a one-character match under any tokenization,
\* a longer match when the span is not cut into tokens); with
\* include_comments=False every reported issue lies inside the interior of a
\* quoted string literal, so a text without quotes yields no issue.
C18_CommentsByFlag ==
    pc = "scanned" =>
        /\ include_comments =>
              \A c \in 1..Len(extract_comments(text)) :
                  LET cm == extract_comments(text)[c]
                  IN  \A p \in cm[1]..(cm[2] - 1) :
                          /\ text[p + 1] = Ch.nao => ReportedAt(p, p + 1)
                          /\ (/\ ~morph
                              /\ p + 2 <= cm[2]
                              /\ text[p + 1] = Ch.touten
                              /\ text[p + 2] = Ch.touten
                              /\ (p = cm[1] \/ text[p] # Ch.touten)) => ReportedAt(p, p + 2)
        /\ ~include_comments =>
              /\ \A j \in 1..Len(issues) : InsideQuotes(issues[j].start, issues[j].end)
              /\ ~HasAny(text, {Ch.dquote, Ch.squote}) => issues = <<>>

\* C18 witness: a one-character match inside a block comment, scanned with
\* comments, is reported at its offset
C18_Witness ==
    /\ pc = "scanned"
    /\ include_comments
    /\ text = <<Ch.slash, Ch.star, Ch.nao, Ch.star, Ch.slash>>
    /\ Len(issues) = 1
    /\ issues[1].start = 2
    /\ issues[1].end = 3

(* ------------------------------------------------------------------ *)
(* advanced_rules.py                                                   *)
(* ------------------------------------------------------------------ *)
\* line 6: the e-row kana
_E_ROW == {12360, 12369, 12370, 12379, 12380, 12390, 12391, 12397, 12408, 12409, 12410, 12417, 12428, 12456, 12465, 12466, 12475, 12476, 12486, 12487, 12493, 12504, 12505, 12506, 12513, 12524}

\* line 8: [U+3040-U+30FF U+4E00-U+9FFF], the characters of the stem
RaNukiStem == (12352..12543) \cup (19968..40959)

\* lines 12-20: (wrong, suggestion), in romaji
\* mireru, koreru, dereru, tabereru, nereru, okireru, kireru
_RANUKI_SPECIAL == <<
    <<<<35211, 12428, 12427>>, <<35211, 12425, 12428, 12427>>>>,
    <<<<26469, 12428, 12427>>, <<26469, 12425, 12428, 12427>>>>,
    <<<<20986, 12428, 12427>>, <<20986, 12425, 12428, 12427>>>>,
    <<<<39135, 12409, 12428, 12427>>, <<39135, 12409, 12425, 12428, 12427>>>>,
    <<<<23517, 12428, 12427>>, <<23517, 12425, 12428, 12427>>>>,
    <<<<36215, 12365, 12428, 12427>>, <<36215, 12365, 12425, 12428, 12427>>>>,
    <<<<30528, 12428, 12427>>, <<30528, 12425, 12428, 12427>>>> >>

\* lines 22-32: (pattern, message, suggestion)
_TAUTOLOGIES == <<
    [pat |-> <<19968, 30058, 26368, 21021>>, msg |-> "juugen no kanousei: 'ichiban saisho'",
     sug |-> <<26368, 21021>>],
    [pat |-> <<19968, 30058, 26368, 24460>>, msg |-> "juugen no kanousei: 'ichiban saigo'",
     sug |-> <<26368, 24460>>],
    [pat |-> <<36942, 21322, 25968, 20197, 19978>>, msg |-> "juugen no kanousei: 'kahansuu ijou'",
     sug |-> <<36942, 21322, 25968>>],
    [pat |-> <<12414, 12378, 26368, 21021, 12395>>, msg |-> "juugen no kanousei: 'mazu saisho ni'",
     sug |-> <<26368, 21021, 12395>>],
    [pat |-> <<20107, 21069, 12395, 20104, 12417>>, msg |-> "juugen no kanousei: 'jizen ni arakajime'",
     sug |-> <<20107, 21069, 12395>>],
    [pat |-> <<36949, 21644, 24863, 12434, 24863, 12376, 12427>>, msg |-> "juugen no kanousei: 'iwakan wo kanjiru'",
     sug |-> <<36949, 21644, 24863, 12364, 12354, 12427>>],
    [pat |-> <<24517, 38920, 26465, 20214>>, msg |-> "juugen no kanousei: 'hissu jouken'",
     sug |-> <<24517, 38920>>],
    [pat |-> <<36942, 21322, 25968, 12398, 21322, 20998>>, msg |-> "juugen no kanousei: 'kahansuu no hanbun'",
     sug |-> <<36942, 21322, 25968>>],
    [pat |-> <<26032, 35215, 12395, 26032, 12383, 12394>>, msg |-> "juugen no kanousei: 'shinki ni aratana'",
     sug |-> <<26032, 12383, 12395>>] >>

\* line 37: no-no, ga-ga, ni-ni, wo-wo, he-he, to-to, de-de
_DOUBLE_PARTICLES == <<<<12398, 12398>>, <<12364, 12364>>, <<12395, 12395>>, <<12434, 12434>>, <<12408, 12408>>, <<12392, 12392>>, <<12391, 12391>>>>

\* line 41: hijouni, totemo, tottemo, sugoku, kanari, taihen, mechakucha
_EMPHATIC_ADVS == <<
    <<38750, 24120, 12395>>,
    <<12392, 12390, 12418>>,
    <<12392, 12387, 12390, 12418>>,
    <<12377, 12372, 12367>>,
    <<12363, 12394, 12426>>,
    <<22823, 22793>>,
    <<12417, 12385, 12419, 12367, 12385, 12419>> >>

\* lines 46-47: the limits the detectors start with (EMPH_THRESHOLD, line 45, is a variable)
LONG_SENTENCE_LIMIT == 100
STYLE_MIX_THRESHOLD == 2

\* lines 53-55
_DOUBLE_ADV_PAIRS == <<
    <<<<12363, 12394, 12426>>, <<12392, 12390, 12418>>>>,
    <<<<12363, 12394, 12426>>, <<12377, 12372, 12367>>>>,
    <<<<12392, 12390, 12418>>, <<12377, 12372, 12367>>>>,
    <<<<38750, 24120, 12395>>, <<12392, 12390, 12418>>>>,
    <<<<38750, 24120, 12395>>, <<12377, 12372, 12367>>>> >>

\* line 60: tokasa|toka|pposa|ppoi|mitaina|mitai
_COLLOQUIAL_RE == <<<<12392, 12363, 12373>>, <<12392, 12363>>, <<12387, 12413, 12373>>, <<12387, 12413, 12356>>, <<12415, 12383, 12356, 12394>>, <<12415, 12383, 12356>>>>

\* lines 63, 69: the full stops and the commas, full and half width
FullStops == {Ch.kuten, Ch.wkuten}
Commas == {Ch.wtouten, Ch.touten}

\* the dict run_advanced yields
AdvHit(start, end, match, message, suggestion, severity, rule) ==
    [start |-> start, end |-> end, match |-> match, message |-> message,
     suggestion |-> suggestion, severity |-> severity, rule_id |-> <<"ADV_", rule>>]

\* s[:n]
Prefix(s, n) == Sub(s, 0, IF n < Len(s) THEN n ELSE Len(s))

\* re.finditer(re.escape(lit), t)
LiteralMatches(t, lit) ==
    Groups(t, [i \in 1..Len(t) |->
                  IF StartsWith(Sub(t, i - 1, Len(t)), lit) THEN i - 1 + Len(lit) ELSE -1])

\* re.finditer of [S]{n,}
RunMatches(t, S, n) ==
    Groups(t, [i \in 1..Len(t) |->
                  LET r == PrefixLen(Sub(t, i - 1, Len(t)), S)
                  IN  IF r >= n THEN i - 1 + r ELSE -1])

\* mutant of line 89: re.search in place of re.finditer, the first match only
RanukiSpecialFirst(t) ==
    Join([j \in 1..Len(_RANUKI_SPECIAL) |->
            LET g == LiteralMatches(t, _RANUKI_SPECIAL[j][1])
            IN  [i \in 1..(IF g = <<>> THEN 0 ELSE 1) |->
                    AdvHit(g[i][1], g[i][2], _RANUKI_SPECIAL[j][1], "ranuki hyougen no kanousei",
                           _RANUKI_SPECIAL[j][2], "WARN", "RANUKI")]])

\* lines 88-100: the listed forms
RanukiSpecialHits(t) ==
    Join([j \in 1..Len(_RANUKI_SPECIAL) |->
            LET g == LiteralMatches(t, _RANUKI_SPECIAL[j][1])
            IN  [i \in 1..Len(g) |->
                    AdvHit(g[i][1], g[i][2], _RANUKI_SPECIAL[j][1], "ranuki hyougen no kanousei",
                           _RANUKI_SPECIAL[j][2], "WARN", "RANUKI")]])

\* line 107: ^\s*(```|~~~).*$ with re.M, matched at offset p
FenceEnd(t, p) ==
    IF p = 0 \/ t[p] = Ch.nl
    THEN LET w == PrefixLen(Sub(t, p, Len(t)), WS)
             r == Sub(t, p + w, Len(t))
         IN  IF \/ StartsWith(r, <<Ch.backtick, Ch.backtick, Ch.backtick>>)
                \/ StartsWith(r, <<126, 126, 126>>)
             THEN UntilChar(t, Ch.nl, p + w + 3)
             ELSE -1
    ELSE -1

\* line 113: `[^`\n]+` matched at offset p
InlineEnd(t, p) ==
    IF t[p + 1] = Ch.backtick
    THEN LET inner == {t[i] : i \in 1..Len(t)} \ {Ch.backtick, Ch.nl}
             n == PrefixLen(Sub(t, p + 1, Len(t)), inner)
         IN  IF n >= 1 /\ p + 1 + n < Len(t) /\ t[p + n + 2] = Ch.backtick
             THEN p + n + 2
             ELSE -1
    ELSE -1

\* lines 104-115: the fences paired by index, from the start of the opening
\* one to the start of the closing one, then the inline code spans
_masked_ranges_md(t) ==
    LET idxs == Matches([i \in 1..Len(t) |-> FenceEnd(t, i - 1)], 1)
    IN  [j \in 1..(Len(idxs) \div 2) |-> <<idxs[2 * j - 1][1], idxs[2 * j][1]>>] \o
        Matches([i \in 1..Len(t) |-> InlineEnd(t, i - 1)], 1)

\* lines 118-122
_in_masked(masked, pos) ==
    \E j \in 1..Len(masked) : masked[j][1] <= pos /\ pos < masked[j][2]

\* line 8: ([stem]+?)reru matched at offset p: the shortest stem
_RA_NUKI_RE(t, p) ==
    LET ns == {n \in 1..(Len(t) - p - 2) :
                  /\ AllIn(Sub(t, p, p + n), RaNukiStem)
                  /\ t[p + n + 1] = 12428
                  /\ t[p + n + 2] = 12427}
    IN  IF ns = {} THEN -1 ELSE p + 2 + (CHOOSE n \in ns : \A m \in ns : n <= m)

\* lines 124-146: the stem ends with an e-row kana, and the match does not start
\* in a masked range
RanukiHeuristicHits(t) ==
    LET masked == _masked_ranges_md(t)
        g == Groups(t, [i \in 1..Len(t) |-> _RA_NUKI_RE(t, i - 1)])
        ok == SelectSeq(g, LAMBDA m : t[m[2] - 2] \in _E_ROW /\ ~_in_masked(masked, m[1]))
    IN  [i \in 1..Len(ok) |->
            AdvHit(ok[i][1], ok[i][2], ok[i][3], "ranuki hyougen no kanousei",
                   Sub(t, ok[i][1], ok[i][2] - 2) \o <<12425, 12428, 12427>>, "INFO", "RANUKI")]

\* lines 148-162
TautologyHits(t) ==
    LET masked == _masked_ranges_md(t)
    IN  Join([j \in 1..Len(_TAUTOLOGIES) |->
                LET g == SelectSeq(LiteralMatches(t, _TAUTOLOGIES[j].pat),
                                   LAMBDA m : ~_in_masked(masked, m[1]))
                IN  [i \in 1..Len(g) |->
                        AdvHit(g[i][1], g[i][2], g[i][3], _TAUTOLOGIES[j].msg,
                               _TAUTOLOGIES[j].sug, "WARN", "TAUTOLOGY")]])

\* lines 164-175
DoubleParticleHits(t) ==
    Join([j \in 1..Len(_DOUBLE_PARTICLES) |->
            LET g == LiteralMatches(t, _DOUBLE_PARTICLES[j])
            IN  [i \in 1..Len(g) |->
                    AdvHit(g[i][1], g[i][2], g[i][3], "renzoku suru joshi no kanousei",
                           NoneStr, "WARN", "DOUBLE_PARTICLE")]])

\* mutant of line 179: the count has to exceed the threshold
EmphExceeded(n, threshold) == n > threshold

\* line 179: len(adv_hits) >= EMPH_THRESHOLD
EmphReached(n, threshold) == n >= threshold

\* lines 177-190: one issue at the first match
EmphaticHits(t, threshold) ==
    LET adv_hits == Groups(t, [i \in 1..Len(t) |-> PatternEnd([alts |-> _EMPHATIC_ADVS], t, i - 1)])
    IN  IF EmphReached(Len(adv_hits), threshold)
        THEN <<AdvHit(adv_hits[1][1], adv_hits[1][2], adv_hits[1][3],
                      "kyouchou fukushi no tayou", NoneStr, "WARN", "EMPHATIC_ADVERB_MANY")>>
        ELSE <<>>

\* line 56: a \s* b matched at offset p
DoubleAdvEnd(t, p, a, b) ==
    IF StartsWith(Sub(t, p, Len(t)), a)
    THEN LET w == PrefixLen(Sub(t, p + Len(a), Len(t)), WS)
         IN  IF StartsWith(Sub(t, p + Len(a) + w, Len(t)), b) THEN p + Len(a) + w + Len(b) ELSE -1
    ELSE -1

\* lines 192-203
DoubleAdverbHits(t) ==
    Join([j \in 1..Len(_DOUBLE_ADV_PAIRS) |->
            LET g == Groups(t, [i \in 1..Len(t) |->
                                   DoubleAdvEnd(t, i - 1, _DOUBLE_ADV_PAIRS[j][1], _DOUBLE_ADV_PAIRS[j][2])])
            IN  [i \in 1..Len(g) |->
                    AdvHit(g[i][1], g[i][2], g[i][3], "nijuu fukushi no kanousei",
                           NoneStr, "WARN", "DOUBLE_ADVERB")]])

\* lines 205-215
ColloquialHits(t) ==
    LET g == Groups(t, [i \in 1..Len(t) |-> PatternEnd([alts |-> _COLLOQUIAL_RE], t, i - 1)])
    IN  [i \in 1..Len(g) |->
            AdvHit(g[i][1], g[i][2], g[i][3], "kougoteki na hyougen", NoneStr, "INFO", "COLLOQUIAL")]

\* line 63: [first].*[last] matched at offset p: the last `last` of the line
MixedEnd(t, p, first, last) ==
    LET qs == {q \in (p + 1)..(UntilChar(t, Ch.nl, p) - 1) : t[q + 1] \in last}
    IN  IF t[p + 1] \in first /\ qs # {}
        THEN 1 + (CHOOSE q \in qs : \A r \in qs : r <= q)
        ELSE -1

\* line 63: the two alternatives in their order
_MIXED_FULL_HALF_PUNCT_RE(t, p) ==
    IF MixedEnd(t, p, FullStops, Commas) >= 0
    THEN MixedEnd(t, p, FullStops, Commas)
    ELSE MixedEnd(t, p, Commas, FullStops)

\* lines 217-229: search, the first match only; the suggestion is the sentence
\* "kutouten wo zenkaku ni touitsu"
PunctMixedHits(t) ==
    LET ps == {p \in 0..(Len(t) - 1) : _MIXED_FULL_HALF_PUNCT_RE(t, p) >= 0}
        p0 == CHOOSE p \in ps : \A q \in ps : p <= q
    IN  IF ps = {} THEN <<>>
        ELSE <<AdvHit(p0, _MIXED_FULL_HALF_PUNCT_RE(t, p0),
                      Prefix(Sub(t, p0, _MIXED_FULL_HALF_PUNCT_RE(t, p0)), 10),
                      "kutouten no shurui ga konzai",
                      <<21477, 35501, 28857, 12434, 20840, 35282, 65288, 12289, 12290, 65289, 12395, 32113, 19968>>,
                      "WARN", "PUNCT_MIXED")>>

\* lines 231-241: \.\.{2,}
EllipsisHits(t) ==
    LET g == RunMatches(t, {Ch.dot}, 3)
    IN  [i \in 1..Len(g) |->
            AdvHit(g[i][1], g[i][2], g[i][3], "santen riidaa wa Unicode ni touitsu",
                   <<Ch.ellipsis>>, "INFO", "ELLIPSIS")]

\* line 69: [ U+3000]+(?=[punctuation]) matched at offset p
_SPACE_BEFORE_PUNCT_RE(t, p) ==
    LET n == PrefixLen(Sub(t, p, Len(t)), {Ch.space, Ch.wspace})
    IN  IF n >= 1 /\ p + n < Len(t) /\ t[p + n + 1] \in (FullStops \cup Commas)
        THEN p + n
        ELSE -1

\* lines 243-253
SpaceBeforePunctHits(t) ==
    LET g == Groups(t, [i \in 1..Len(t) |-> _SPACE_BEFORE_PUNCT_RE(t, i - 1)])
    IN  [i \in 1..Len(g) |->
            AdvHit(g[i][1], g[i][2], g[i][3], "kutouten chokuzen no supeesu wo sakujo",
                   <<>>, "WARN", "SPACE_BEFORE_PUNCT")]

\* lines 255-265
ProlongedHits(t) ==
    LET g == RunMatches(t, {Ch.chouon}, 3)
    IN  [i \in 1..Len(g) |->
            AdvHit(g[i][1], g[i][2], g[i][3], "nobashibou no tayou", NoneStr, "INFO", "PROLONGED_SOUND")]

RECURSIVE LongFrom(_, _, _)
\* lines 76-86: the sentences, each up to its full stop, longer than limit
LongFrom(t, start, limit) ==
    LET m == Find(t, <<Ch.kuten>>, start)
    IN  IF m < 0
        THEN IF Len(t) - start > limit THEN <<(<<start, Len(t)>>)>> ELSE <<>>
        ELSE (IF m + 1 - start > limit THEN <<(<<start, m + 1>>)>> ELSE <<>>) \o
             LongFrom(t, m + 1, limit)

\* mutant of lines 81 and 85: a sentence of exactly limit characters is long
_detect_long_sentences_from(t, limit) == LongFrom(t, 0, limit - 1)

_detect_long_sentences(t, limit) == LongFrom(t, 0, limit)

\* lines 267-277; the suggestion is the sentence "bun wo bunkatsu suru nado no kentou"
LongSentenceHits(t) ==
    LET g == _detect_long_sentences(t, LONG_SENTENCE_LIMIT)
    IN  [i \in 1..Len(g) |->
            AdvHit(g[i][1], g[i][2], Prefix(Sub(t, g[i][1], g[i][2]), 10), "1 bun ga nagasugimasu",
                   <<25991, 12434, 20998, 21106, 12377, 12427, 12394, 12393, 12398, 26908, 35342>>,
                   "INFO", "LONG_SENTENCE")]

\* the line boundaries of str.splitlines
LineBreaks == {10, 11, 12, 13, 28, 29, 30, 133, 8232, 8233}

RECURSIVE SplitLines(_)
\* str.splitlines(keepends=True)
SplitLines(t) ==
    IF t = <<>> THEN <<>>
    ELSE LET n == PrefixLen(t, {t[i] : i \in 1..Len(t)} \ LineBreaks)
             e == IF n >= Len(t) THEN Len(t)
                  ELSE IF t[n + 1] = 13 /\ n + 1 < Len(t) /\ t[n + 2] = 10 THEN n + 2
                  ELSE n + 1
         IN  <<Sub(t, 0, e)>> \o SplitLines(Sub(t, e, Len(t)))

\* line 286: the line opens or closes a fence
IsFenceLine(ln) ==
    \/ StartsWith(Strip(ln), <<Ch.backtick, Ch.backtick, Ch.backtick>>)
    \/ StartsWith(Strip(ln), <<126, 126, 126>>)

\* line 295: ^\s*(?:[bullet]|\d+[.)]|[(]\d+[)])\s+
IsBullet(ln) ==
    LET r == LStrip(ln)
        d == PrefixLen(r, AsciiDigit)
        d2 == PrefixLen(Sub(r, 1, Len(r)), AsciiDigit)
        e == IF r # <<>> /\ r[1] \in {45, 42, 12539, 8226, 9679, 9670, 9671, 9632, 9633} THEN 1
             ELSE IF d >= 1 /\ d < Len(r) /\ r[d + 1] \in {46, 41} THEN d + 1
             ELSE IF /\ r # <<>> /\ r[1] \in {65288, 40} /\ d2 >= 1 /\ d2 + 1 < Len(r)
                     /\ r[d2 + 2] \in {65289, 41} THEN d2 + 2
             ELSE -1
    IN  e >= 0 /\ e < Len(r) /\ r[e + 1] \in WS

\* lines 295-300: bullets, headers, quotes, tables, closing brackets, colons
IsExemptLine(ln) ==
    LET core == RStrip(ln)
        w == PrefixLen(ln, WS)
    IN  \/ IsBullet(ln)
        \/ StartsWith(LStrip(ln), <<Ch.hash>>)
        \/ (w <= 3 /\ w < Len(ln) /\ ln[w + 1] = 62)
        \/ StartsWith(LStrip(ln), <<124>>)
        \/ (core # <<>> /\ core[Len(core)] \in {41, 93, 65289, 12305, 12299, 12303, 12301})
        \/ (core # <<>> /\ core[Len(core)] \in {58, 65306})

RECURSIVE FinalPunctFrom(_, _, _, _)
\* lines 280-311: the lines with Japanese outside the fences that do not end with
\* a full stop, '!' or '?' (full width)
FinalPunctFrom(lines, offset, in_code, sev) ==
    IF lines = <<>> THEN <<>>
    ELSE LET ln == Head(lines)
             core == RStrip(ln)
         IN  IF IsFenceLine(ln)
             THEN FinalPunctFrom(Tail(lines), offset + Len(ln), ~in_code, sev)
             ELSE (IF /\ HasAny(ln, RaNukiStem)
                      /\ ~in_code
                      /\ core # <<>>
                      /\ core[Len(core)] \notin {Ch.kuten, Ch.wbang, Ch.wquest}
                      /\ ~IsExemptLine(ln)
                   THEN <<AdvHit(offset, offset + Len(ln), Prefix(Strip(ln), 10),
                                 "bunmatsu ni kuten wo fuyo shite kudasai", NoneStr, sev,
                                 "SENTENCE_FINAL_PUNCT")>>
                   ELSE <<>>) \o
                  FinalPunctFrom(Tail(lines), offset + Len(ln), in_code, sev)

\* mutant of line 282: the walk starts inside a fence
SentenceFinalPunctInCode(t) == FinalPunctFrom(SplitLines(t), 0, TRUE, "INFO")

\* lines 279-311, SENTENCE_FINAL_PUNCT_SEVERITY as it starts (line 49)
SentenceFinalPunctHits(t) == FinalPunctFrom(SplitLines(t), 0, FALSE, "INFO")

\* lines 87-348: the detectors in their order; KATAKANA_DENY is empty and
\* END_PARTICLE_POLICY is 0 (lines 48-51) unless configured, so the blocks of
\* lines 313-348 yield nothing
run_advanced(t, threshold) ==
    RanukiSpecialHits(t) \o RanukiHeuristicHits(t) \o TautologyHits(t) \o DoubleParticleHits(t) \o
    EmphaticHits(t, threshold) \o DoubleAdverbHits(t) \o ColloquialHits(t) \o PunctMixedHits(t) \o
    EllipsisHits(t) \o SpaceBeforePunctHits(t) \o ProlongedHits(t) \o LongSentenceHits(t) \o
    SentenceFinalPunctHits(t)

\* one line of str.splitlines(): the line without its boundary
Chomp(ln) ==
    IF ln # <<>> /\ ln[Len(ln)] \in LineBreaks
    THEN IF Len(ln) >= 2 /\ ln[Len(ln)] = 10 /\ ln[Len(ln) - 1] = 13
         THEN Sub(ln, 0, Len(ln) - 2) ELSE Sub(ln, 0, Len(ln) - 1)
    ELSE ln

\* s ends with one of the endings
EndsWithAny(s, endings) ==
    \E e \in endings : Len(e) <= Len(s) /\ Sub(s, Len(s) - Len(e), Len(s)) = e

\* lines 377-403: desu/masu lines against da/dearu lines; the suggestion is the
\* sentence "bunshonai de bunmatsu hyougen wo dochiraka ni touitsu"
detect_style_mixed_lines(t, threshold) ==
    LET lines == SplitLines(t)
        thr == IF threshold.none THEN STYLE_MIX_THRESHOLD ELSE threshold.val
        polite == {i \in 1..Len(lines) : EndsWithAny(Chomp(lines[i]), {<<12391, 12377, 12290>>, <<12414, 12377, 12290>>})}
        plain == {i \in 1..Len(lines) : EndsWithAny(Chomp(lines[i]), {<<12384, 12290>>, <<12391, 12354, 12427, 12290>>})}
        desu == Find(t, <<12391, 12377, 12290>>, 0)
        pos == IF desu < 0 THEN Find(t, <<12384, 12290>>, 0) ELSE desu
        start == IF pos < 0 THEN 0 ELSE pos
        end == IF pos + 3 < 0 THEN 0 ELSE pos + 3
    IN  IF Cardinality(polite) >= thr /\ Cardinality(plain) >= thr
        THEN <<AdvHit(start, end, Sub(t, start, end), "buntai ga konzai shite imasu",
                      <<25991, 26360, 20869, 12391, 25991, 26411, 34920, 29694, 12434, 12393, 12385, 12425, 12363, 12395, 32113, 19968>>,
                      "WARN", "STYLE_MIXED_LINES")>>
        ELSE <<>>

(* ------------------------------------------------------------------ *)
(* check_text(advanced=True), run_advanced, configure_advanced         *)
(* ------------------------------------------------------------------ *)
\* the fragments the texts are made of: two listed forms (mireru, tabereru), a
\* tautology (ichiban saisho), an emphatic adverb (taihen), a back-tick, a
\* quote, a full stop, and a fence after a newline
AdvPieces == {<<35211, 12428, 12427>>, <<39135, 12409, 12428, 12427>>, <<19968, 30058, 26368, 21021>>, <<22823, 22793>>,
              <<Ch.backtick>>, <<Ch.dquote>>, <<Ch.kuten>>,
              <<Ch.nl, Ch.backtick, Ch.backtick, Ch.backtick>>}

AdvTexts == {Join(ps) : ps \in SeqsOf(AdvPieces, 0, MaxAdvPieces)}

\* a process that has imported advanced_rules: check_text(text, from_code=...,
\* include_comments=False, morph=False, advanced=True), or run_advanced(text)
InitAdvanced ==
    /\ pc = "gather"
    /\ text \in AdvTexts
    /\ from_code \in BOOLEAN
    /\ include_comments = FALSE
    /\ morph = FALSE
    /\ issues = <<>>
    /\ k = 0
    /\ spans = <<>>
    /\ subspans = <<>>
    /\ hits = <<>>
    /\ FixIdle
    /\ PathIdle
    /\ ProvIdle
    /\ MainIdle
    /\ DetIdle
    /\ RegIdle
    /\ PoolIdle
    /\ PassIdle
    /\ AdvIdle

\* lines 351-355: configure_advanced(emph_threshold=...); None and the values
\* that are not positive leave the threshold as it is
ConfigureAdvanced ==
    /\ pc = "gather"
    /\ \E emph_threshold \in (-1)..MaxThreshold :
          EMPH_THRESHOLD' = IF emph_threshold > 0 THEN emph_threshold ELSE EMPH_THRESHOLD
    /\ UNCHANGED <<adv_out, sharedVars, scanVars>>
    /\ UNCHANGED <<fixVars, pathVars, provVars, mainVars, detVars, regVars, poolVars, passVars>>

\* list(run_advanced(text)), called on the text itself
RunAdvanced ==
    /\ pc = "gather"
    /\ adv_out' = run_advanced(text, EMPH_THRESHOLD)
    /\ pc' = "ran"
    /\ UNCHANGED <<EMPH_THRESHOLD, text, issues, k, scanVars>>
    /\ UNCHANGED <<fixVars, pathVars, provVars, mainVars, detVars, regVars, poolVars, passVars>>

\* lines 98-126: the hits of one sub-span, the built-in rules and then the
\* advanced ones, with the sub-span they were found in
AdvancedHitsOf(sub, threshold) ==
    CHOOSE tagged \in
        {[j \in 1..Len(hs) |-> [s2 |-> sub[1], e2 |-> sub[2], jp2 |-> sub[3], hit |-> hs[j]]] :
            hs \in {run_rules(_simple_patterns, sub[3]) \o run_advanced(sub[3], threshold)}} : TRUE

\* lines 96-126 with advanced=True: the loop over the sub-spans of the current span
RunRulesAdvanced ==
    /\ pc = "rules"
    /\ \E hs \in {Join([j \in 1..Len(subspans) |-> AdvancedHitsOf(subspans[j], EMPH_THRESHOLD)])} :
          /\ hits' = hits \o hs
          /\ issues' = issues \o [j \in 1..Len(hs) |-> IssueOf(hs[j], text)]
    /\ k' = k + 1
    /\ pc' = "span"
    /\ UNCHANGED <<text, from_code, include_comments, morph, spans, subspans>>
    /\ UNCHANGED <<fixVars, pathVars, extVars>>

\* lines 177-191 with advanced=True: the style check of the whole text, return
ReturnIssuesAdvanced ==
    /\ pc = "span"
    /\ k > Len(spans)
    /\ \E sm \in {detect_style_mixed_lines(text, NoneInt)} :
          issues' = issues \o
              [j \in 1..Len(sm) |->
                  Issue(sm[j].start, sm[j].end, Sub(text, sm[j].start, sm[j].end), sm[j].message,
                        sm[j].suggestion, sm[j].severity, sm[j].rule_id)]
    /\ pc' = "scanned"
    /\ UNCHANGED <<text, k>>
    /\ UNCHANGED <<scanVars, fixVars, pathVars, extVars>>

NextAdvanced ==
    \/ ConfigureAdvanced
    \/ RunAdvanced
    \/ GatherSpans
    \/ WholeSpan
    \/ RunRulesAdvanced
    \/ ReturnIssuesAdvanced

SpecAdvanced == InitAdvanced /\ [][NextAdvanced]_vars

(* ------------------------------------------------------------------ *)
(* the advanced rules: properties                                      *)
(* ------------------------------------------------------------------ *)
\* the offsets of t at which lit occurs
OccurrencesOf(t, lit) == {p \in 0..(Len(t) - 1) : StartsWith(Sub(t, p, Len(t)), lit)}

\* the offsets of t at which an emphatic adverb occurs
EmphaticOccurrences(t) ==
    UNION {OccurrencesOf(t, _EMPHATIC_ADVS[a]) : a \in 1..Len(_EMPHATIC_ADVS)}

\* the ADV_EMPHATIC_ADVERB_MANY hits of the direct call
EmphaticOut == SelectSeq(adv_out, LAMBDA h : h.rule_id = <<"ADV_", "EMPHATIC_ADVERB_MANY">>)

\* C15: run_advanced yields exactly one ADV_EMPHATIC_ADVERB_MANY hit, at the first
\* occurrence, when the emphatic adverbs of the text occur as often as the
\* configured threshold or more often, and none when they occur less often.
C15_EmphaticThreshold ==
    pc = "ran" =>
        LET occ == EmphaticOccurrences(text)
        IN  /\ Cardinality(occ) >= EMPH_THRESHOLD =>
                  /\ Len(EmphaticOut) = 1
                  /\ EmphaticOut[1].start \in occ
                  /\ \A p \in occ : EmphaticOut[1].start <= p
            /\ Cardinality(occ) < EMPH_THRESHOLD => EmphaticOut = <<>>

\* C15 witness: after configure_advanced(emph_threshold=3), the third occurrence
\* of an adverb gives one hit, at the first of them
C15_Witness ==
    /\ pc = "ran"
    /\ EMPH_THRESHOLD = 3
    /\ Cardinality(EmphaticOccurrences(text)) = 3
    /\ Len(EmphaticOut) = 1
    /\ EmphaticOut[1].start = 0
    /\ EmphaticOut[1].end = 2

\* a WARN issue of the listed forms for [p, p + len(wrong)) with the listed correction
RanukiReported(p, pair) ==
    \E j \in 1..Len(issues) :
        /\ issues[j].start = p
        /\ issues[j].end = p + Len(pair[1])
        /\ issues[j].snippet = pair[1]
        /\ issues[j].severity = "WARN"
        /\ issues[j].suggestion = pair[2]

TautologyReported(p, entry) ==
    \E j \in 1..Len(issues) :
        /\ issues[j].start = p
        /\ issues[j].end = p + Len(entry.pat)
        /\ issues[j].snippet = entry.pat
        /\ issues[j].severity = "WARN"
        /\ issues[j].rule_id = <<"ADV_", "TAUTOLOGY">>
        /\ issues[j].suggestion = entry.sug

\* C17: for every text, check_text with advanced=True reports each phrase of the
\* tautology table that starts outside the masked (fenced or inline-code) regions
\* of the text as a WARN ADV_TAUTOLOGY issue spanning the phrase, with the
\* table's canonical phrase as suggestion, and reports no phrase that starts
\* inside a masked region.
C17_TautologyOutsideMasks ==
    pc = "scanned" =>
        \A j \in 1..Len(_TAUTOLOGIES) :
            \A p \in OccurrencesOf(text, _TAUTOLOGIES[j].pat) :
                IF _in_masked(_masked_ranges_md(text), p)
                THEN ~TautologyReported(p, _TAUTOLOGIES[j])
                ELSE TautologyReported(p, _TAUTOLOGIES[j])

(* ------------------------------------------------------------------ *)
(* apply_fixes: deletions                                              *)
(* ------------------------------------------------------------------ *)
\* C21: for every issue that apply_fixes applies, the output holds the
\* computed replacement in place of text[start:end], also when the computed
\* replacement is the empty string (a deletion, as _fix_space_before_punct
\* computes for ADV_SPACE_BEFORE_PUNCT).
C21_ReplacementInPlace ==
    pc = "done" =>
        \A m \in Applied : out[m].s = issues[out[m].ref].suggestion

(* ------------------------------------------------------------------ *)
(* check_text over code with comments: repeated reports                *)
(* ------------------------------------------------------------------ *)
\* C30: check_text reports each rule match at most once.  With from_code=True
\* and include_comments=True no two returned issues have the same start, end,
\* message and rule_id, also when the Japanese block sits inside a quoted
\* string literal that is itself inside a comment.
C30_ReportedOnce ==
    (pc = "scanned" /\ from_code /\ include_comments) =>
        \A i \in 1..Len(issues) : \A j \in 1..Len(issues) :
            (/\ issues[i].start = issues[j].start
             /\ issues[i].end = issues[j].end
             /\ issues[i].message = issues[j].message
             /\ issues[i].rule_id = issues[j].rule_id) => i = j

(* ------------------------------------------------------------------ *)
(* run_advanced over lines: the sentence-final punctuation             *)
(* ------------------------------------------------------------------ *)
\* the fragments the texts are made of: a back-tick fence line, a tilde fence
\* line, a Japanese line without and with a full stop, a bullet line, a line
\* without Japanese, a space, and a Japanese character without a line end
LinePieces == {<<Ch.backtick, Ch.backtick, Ch.backtick, Ch.nl>>, <<126, 126, 126, Ch.nl>>,
               <<Ch.no, Ch.nl>>, <<Ch.no, Ch.kuten, Ch.nl>>, <<Ch.hyphen, Ch.space, Ch.no, Ch.nl>>,
               <<Ch.lower_a, Ch.nl>>, <<Ch.space>>, <<Ch.no>>}

LineTexts == {Join(ps) : ps \in SeqsOf(LinePieces, 0, MaxLines)}

\* a process that has imported advanced_rules and calls run_advanced(text)
InitLines ==
    /\ pc = "gather"
    /\ text \in LineTexts
    /\ issues = <<>>
    /\ k = 0
    /\ FixIdle
    /\ ScanIdle
    /\ PathIdle
    /\ ExtIdle

SpecLines == InitLines /\ [][RunAdvanced]_vars

\* the ADV_SENTENCE_FINAL_PUNCT hits of the direct call
FinalPunctOut == SelectSeq(adv_out, LAMBDA h : h.rule_id = <<"ADV_", "SENTENCE_FINAL_PUNCT">>)

\* the total length of the lines before line i
LineStart(lines, i) == Len(Join(SubSeq(lines, 1, i - 1)))

\* line i is no fence line and an even number of fence lines precede it
OutsideFences(lines, i) ==
    /\ ~IsFenceLine(lines[i])
    /\ Cardinality({j \in 1..(i - 1) : IsFenceLine(lines[j])}) % 2 = 0

\* line i holds Japanese, its right-trimmed content does not end in a
\* sentence-final mark, and it is no bullet, heading, quote, table row, and
\* ends with no closing bracket and no colon
NeedsFullStop(lines, i) ==
    LET core == RStrip(lines[i])
    IN  /\ \E c \in 1..Len(lines[i]) : lines[i][c] \in (12352..12543) \cup (19968..40959)
        /\ core[Len(core)] \notin {Ch.kuten, Ch.wbang, Ch.wquest}
        /\ ~IsExemptLine(lines[i])

\* C24: the sentence-final-punctuation detector walks the lines with a flag
\* that every fence line (``` or ~~~) toggles.  It yields nothing for a fence
\* line or a line inside a fence; for every other line it yields a hit exactly
\* when the line holds Japanese, does not end in a sentence-final mark and is
\* not exempt; the hits come in line order, one per line, and the span of each
\* is its physical line, starting at the total length of the lines before it.
C24_FinalPunctOutsideFences ==
    pc = "ran" =>
        LET lines == SplitLines(text)
            due == {i \in 1..Len(lines) : OutsideFences(lines, i) /\ NeedsFullStop(lines, i)}
        IN  /\ Len(FinalPunctOut) = Cardinality(due)
            /\ \A i \in due :
                  \E h \in 1..Len(FinalPunctOut) :
                      /\ FinalPunctOut[h].start = LineStart(lines, i)
                      /\ FinalPunctOut[h].end = LineStart(lines, i) + Len(lines[i])
            /\ \A h \in 1..(Len(FinalPunctOut) - 1) :
                  FinalPunctOut[h].end <= FinalPunctOut[h + 1].start

\* C24 witness: a Japanese line inside a fence and the same line after the
\* closing fence; only the second one is reported, at its offset
C24_Witness ==
    /\ pc = "ran"
    /\ text = <<Ch.backtick, Ch.backtick, Ch.backtick, Ch.nl, Ch.no, Ch.nl,
                Ch.backtick, Ch.backtick, Ch.backtick, Ch.nl, Ch.no>>
    /\ Len(FinalPunctOut) = 1
    /\ FinalPunctOut[1].start = 10
    /\ FinalPunctOut[1].end = 11

(* ------------------------------------------------------------------ *)
(* _detect_long_sentences with a limit                                 *)
(* ------------------------------------------------------------------ *)
\* the texts: full stops and a hiragana letter
SentenceTexts == SeqsOf({Ch.kuten, Ch.no}, 0, MaxSentenceLen)

\* the limit argument: absent, or a number
LimitChoices == {NoneInt} \cup {[none |-> FALSE, val |-> n] : n \in 0..MaxLimit}

\* a process that has imported advanced_rules and calls
\* list(_detect_long_sentences(text, limit))
InitLong ==
    /\ pc = "gather"
    /\ text \in SentenceTexts
    /\ long_limit \in LimitChoices
    /\ style_mix_threshold = NoneInt
    /\ det_out = <<>>
    /\ issues = <<>>
    /\ k = 0
    /\ FixIdle
    /\ ScanIdle
    /\ PathIdle
    /\ ProvIdle
    /\ MainIdle
    /\ RegIdle
    /\ PoolIdle
    /\ PassIdle
    /\ AdvIdle

\* lines 75-86; lines 76-77: without a limit, the module's LONG_SENTENCE_LIMIT
DetectLong ==
    /\ pc = "gather"
    /\ det_out' = _detect_long_sentences(text, IF long_limit.none THEN LONG_SENTENCE_LIMIT
                                               ELSE long_limit.val)
    /\ pc' = "ran"
    /\ UNCHANGED <<text, issues, k, long_limit, style_mix_threshold>>
    /\ UNCHANGED <<fixVars, scanVars, pathVars, provVars, mainVars, regVars, poolVars, passVars, advVars>>

SpecLong == InitLong /\ [][DetectLong]_vars

\* the limit in force
LimitInForce == IF long_limit.none THEN LONG_SENTENCE_LIMIT ELSE long_limit.val

\* the offsets a segment starts at: 0 and the offset after each full stop
SegmentStarts == {0} \cup {p \in 1..Len(text) : text[p] = Ch.kuten}

\* the end of the segment that starts at a: after the next full stop, or the
\* end of the text for the final segment
SegmentEnd(a) ==
    LET stops == {p \in (a + 1)..Len(text) : text[p] = Ch.kuten}
    IN  IF stops = {} THEN Len(text) ELSE CHOOSE p \in stops : \A q \in stops : p <= q

\* C23: the long-sentence detector splits the text at each full-width period
\* and flags a segment exactly when its length, its period included, is greater
\* than the limit; the final segment without a period falls under the same
\* test; the flagged spans come in increasing order, are disjoint, each begins
\* at 0 or where the sentence before it ended; a segment of exactly limit
\* characters is not flagged.
C23_LongSegments ==
    pc = "ran" =>
        LET long == {a \in SegmentStarts : SegmentEnd(a) - a > LimitInForce}
        IN  /\ Len(det_out) = Cardinality(long)
            /\ \A a \in long : \E h \in 1..Len(det_out) : det_out[h] = <<a, SegmentEnd(a)>>
            /\ \A h \in 1..(Len(det_out) - 1) : det_out[h][2] <= det_out[h + 1][1]
            /\ \A h \in 1..Len(det_out) : det_out[h][2] - det_out[h][1] # LimitInForce

\* C23 witness: with limit 2, a sentence of two characters is passed and the
\* unterminated segment of three characters after it is flagged
C23_Witness ==
    /\ pc = "ran"
    /\ long_limit = [none |-> FALSE, val |-> 2]
    /\ text = <<Ch.no, Ch.kuten, Ch.no, Ch.no, Ch.no>>
    /\ det_out = <<(<<2, 5>>)>>

(* ------------------------------------------------------------------ *)
(* detect_style_mixed_lines with a threshold                           *)
(* ------------------------------------------------------------------ *)
\* the sentence-final forms: desu, masu (polite), da, dearu (plain), each with
\* its full stop
PoliteForms == {<<12391, 12377, 12290>>, <<12414, 12377, 12290>>}

PlainForms == {<<12384, 12290>>, <<12391, 12354, 12427, 12290>>}

\* the fragments the texts are made of: a line of each form, a letter, and a
\* plain form without a line end
StylePieces == {f \o <<Ch.nl>> : f \in PoliteForms \cup PlainForms} \cup {<<Ch.no>>, <<12384, 12290>>}

StyleTexts == {Join(ps) : ps \in SeqsOf(StylePieces, 0, MaxStyleLines)}

\* the threshold argument: absent, or a number
ThresholdChoices == {NoneInt} \cup {[none |-> FALSE, val |-> n] : n \in 1..MaxStyleThreshold}

\* a process that has imported advanced_rules and calls
\* detect_style_mixed_lines(text, threshold)
InitStyle ==
    /\ pc = "gather"
    /\ text \in StyleTexts
    /\ style_mix_threshold \in ThresholdChoices
    /\ long_limit = NoneInt
    /\ det_out = <<>>
    /\ issues = <<>>
    /\ k = 0
    /\ FixIdle
    /\ ScanIdle
    /\ PathIdle
    /\ ProvIdle
    /\ MainIdle
    /\ RegIdle
    /\ PoolIdle
    /\ PassIdle
    /\ AdvIdle

\* lines 377-403: the dict, or None (no element)
DetectStyle ==
    /\ pc = "gather"
    /\ det_out' = detect_style_mixed_lines(text, style_mix_threshold)
    /\ pc' = "ran"
    /\ UNCHANGED <<text, issues, k, long_limit, style_mix_threshold>>
    /\ UNCHANGED <<fixVars, scanVars, pathVars, provVars, mainVars, regVars, poolVars, passVars, advVars>>

SpecStyle == InitStyle /\ [][DetectStyle]_vars

\* the number of lines of the text that end in one of the forms
LinesEnding(forms) ==
    LET lines == SplitLines(text)
    IN  Cardinality({i \in 1..Len(lines) : EndsWithAny(Chomp(lines[i]), forms)})

\* the threshold in force
ThresholdInForce == IF style_mix_threshold.none THEN STYLE_MIX_THRESHOLD ELSE style_mix_threshold.val

\* C22: detect_style_mixed_lines returns an issue if and only if the number of
\* lines ending in a polite form and the number of lines ending in a plain form
\* both reach the threshold; it is one WARN whose span [start, end) is the
\* first occurrence in the text of one of the sentence-final forms, so that
\* text[start:end] is that form.
C22_StyleMixAnchored ==
    pc = "ran" =>
        /\ det_out # <<>> <=>
              /\ LinesEnding(PoliteForms) >= ThresholdInForce
              /\ LinesEnding(PlainForms) >= ThresholdInForce
        /\ det_out # <<>> =>
              /\ Len(det_out) = 1
              /\ det_out[1].severity = "WARN"
              /\ \E f \in PoliteForms \cup PlainForms :
                    /\ det_out[1].start = Find(text, f, 0)
                    /\ Sub(text, det_out[1].start, det_out[1].end) = f

(* ------------------------------------------------------------------ *)
(* check_paths: the pool against the serial loop                       *)
(* ------------------------------------------------------------------ *)
\* how often file f occurs in the list call r returned
IssuesFrom(r, f) == Cardinality({j \in 1..Len(hist[r].results) : hist[r].results[j] = f})

\* the map call r persists when no scan raises: the loaded map with the
\* fingerprint of every file it did not hold
MapAfter(r) ==
    [f \in Files |-> IF HeldIn(r, f) THEN hist[r].loaded.map[f] ELSE FingerprintIn(r, f)]

\* C26: parallel and serial scanning are equivalent.  When no scan raises, what
\* a call returns and persists is a function of the files, of use_cache and of
\* the initial cache alone, the same for jobs > 1 and jobs = 1: it returns the
\* issues of exactly the files the cache does not hold, each once and in any
\* order, and persists the loaded map with their fingerprints (nothing when
\* use_cache is False); and when the cache cannot be consulted it raises for
\* every value of jobs, before any scan.
C26_JobsEquivalent ==
    (CallEnded /\ \A f \in Files : ~disk[f].raises) =>
        LET h == hist[run] IN
        IF h.use_cache /\ h.loaded.kind # "dict"
        THEN /\ h.outcome = "raised"
             /\ h.scanned = <<>>
             /\ cache_file = h.cache_file0
        ELSE /\ h.outcome = "returned"
             /\ \A f \in Files :
                   IssuesFrom(run, f) = IF h.use_cache /\ HeldIn(run, f) THEN 0 ELSE Len(FileIssues(f))
             /\ cache_file = IF h.use_cache THEN Dict(MapAfter(run)) ELSE h.cache_file0

\* C26 witness: a call with jobs = 2 whose futures completed in the reverse of
\* the submission order, which returned the issues of both files and persisted
\* both fingerprints
C26_Witness ==
    /\ CallEnded
    /\ hist[run].jobs = 2
    /\ hist[run].use_cache
    /\ hist[run].outcome = "returned"
    /\ hist[run].scanned = <<2, 1>>
    /\ hist[run].results = <<2, 1>>
    /\ cache_file = Dict([f \in Files |-> FingerprintIn(run, f)])

(* ------------------------------------------------------------------ *)
(* cli.py: main around check_paths, with a file system that changes    *)
(* ------------------------------------------------------------------ *)
\* cli.py lines 38-44: --fix, --fix-aggressive, --no-cache
ArgChoices == [fix : BOOLEAN, fix_aggressive : BOOLEAN, no_cache : BOOLEAN]

\* cli.py lines 179-181
UseCacheOf(a) == IF a.fix THEN FALSE ELSE ~a.no_cache

\* file_scanner.py lines 35-43: the files the given paths lead to
FileChoices == SUBSET Files

\* no file was fingerprinted or read yet
NothingYet == [f \in Files |-> Missing]

\* check_file: what the rules find in the content that was read, v being the
\* state of the file at the read; with advanced=True the advanced rules add
\* their issues
ScanIssues(f, v, adv) ==
    <<[file |-> f, state |-> v, rule_id |-> ""]>> \o
    (IF adv THEN <<[file |-> f, state |-> v, rule_id |-> "ADV_"]>> ELSE <<>>)

\* mutant of checker.py line 252: no file is skipped
CacheSkipsNever(uc, c, key, fp) == FALSE

\* checker.py line 252: use_cache and cache.get(key) == fp
CacheSkips(uc, c, key, fp) == uc /\ c.map[key] = fp

\* mutant of checker.py lines 292 and 311: the fingerprint is taken when the
\* entry is stored, st being the state of the file then
FingerprintAtStore(fp, st) == file_fingerprint(st)

\* checker.py lines 292 and 311: cache[key] = fp, the fingerprint of line 250
StoredFingerprint(fp, st) == fp

InitMain ==
    /\ pc = "idle"
    /\ disk \in [Files -> [mtime : {0}, size : {0}, raises : {FALSE}]]
    /\ cache_file \in CacheFiles
    /\ use_cache = FALSE /\ jobs = 1
    /\ cache = EmptyDict
    /\ to_scan = <<>>
    /\ results = <<>>
    /\ futs = {}
    /\ run = 0
    /\ hist = <<>>
    /\ text = <<>> /\ issues = <<>> /\ k = 0
    /\ FixIdle
    /\ ScanIdle
    /\ ExtIdle

\* cli.py lines 179-181 and 221-233, checker.py lines 242-247
MainStart ==
    /\ pc = "idle"
    /\ run < MaxRuns
    /\ Len(fixed) = run
    /\ \E a \in ArgChoices : \E j \in JobChoices : \E adv \in BOOLEAN : \E fs \in FileChoices :
          /\ args' = a
          /\ jobs' = j
          /\ advanced' = adv
          /\ files' = fs
          /\ use_cache' = UseCacheOf(a)
          /\ cache' = IF UseCacheOf(a) THEN load_cache(cache_file) ELSE EmptyDict
          /\ hist' = Append(hist, [args |-> a, use_cache |-> UseCacheOf(a), jobs |-> j, advanced |-> adv,
                                   files |-> fs, cache_file0 |-> cache_file, loaded |-> cache',
                                   fp |-> NothingYet, read |-> NothingYet, scanned |-> <<>>,
                                   outcome |-> "running", results |-> <<>>])
    /\ to_scan' = <<>>
    /\ results' = <<>>
    /\ read' = NothingYet
    /\ run' = run + 1
    /\ k' = 1
    /\ pc' = "fingerprint"
    /\ UNCHANGED <<disk, cache_file, futs, text, issues, fixed>>
    /\ UNCHANGED <<fixVars, scanVars, provVars, detVars, regVars, poolVars, passVars, advVars>>

\* checker.py lines 249-254: one candidate; a path that leads to no file is not
\* in files; cache.get raises when the loaded value is no dict
FingerprintListed ==
    /\ pc = "fingerprint"
    /\ k <= MaxFiles
    /\ LET fp == file_fingerprint(disk[k])
       IN  IF k \notin files
           THEN /\ k' = k + 1
                /\ UNCHANGED <<pc, hist, to_scan>>
           ELSE IF use_cache /\ cache.kind # "dict"
           THEN /\ pc' = "idle"
                /\ hist' = [hist EXCEPT ![run].outcome = "raised"]
                /\ UNCHANGED <<to_scan, k>>
           ELSE /\ to_scan' = IF CacheSkips(use_cache, cache, k, fp) THEN to_scan
                              ELSE Append(to_scan, <<k, fp>>)
                /\ hist' = [hist EXCEPT ![run].fp[k] = fp]
                /\ k' = k + 1
                /\ UNCHANGED pc
    /\ UNCHANGED <<disk, cache_file, use_cache, jobs, cache, results, futs, run, text, issues>>
    /\ UNCHANGED <<args, files, advanced, read, fixed>>
    /\ UNCHANGED <<fixVars, scanVars, provVars, detVars, regVars, poolVars, passVars, advVars>>

\* another process writes a file, before, during or after a call
Modify ==
    /\ \E f \in Files :
          /\ disk[f].mtime < MaxStamp
          /\ disk' = [disk EXCEPT ![f].mtime = @ + 1]
    /\ UNCHANGED <<cache_file, use_cache, jobs, cache, to_scan, results, futs, run, hist>>
    /\ UNCHANGED <<sharedVars, fixVars, scanVars, extVars>>

\* checker.py line 206: check_file reads the content, in the serial loop or on
\* a worker thread
ReadFile ==
    /\ \E key \in Files :
          /\ \/ pc = "serial" /\ k <= Len(to_scan) /\ to_scan[k][1] = key
             \/ pc = "parallel" /\ \E e \in futs : e[1] = key
          /\ read[key] = Missing
          /\ read' = [read EXCEPT ![key] = file_fingerprint(disk[key])]
    /\ UNCHANGED <<args, files, advanced, fixed>>
    /\ UNCHANGED <<sharedVars, fixVars, scanVars, pathVars>>
    /\ UNCHANGED <<provVars, detVars, regVars, poolVars, passVars, advVars>>

\* checker.py lines 284-292: a completed future is collected
CollectRead ==
    /\ pc = "parallel"
    /\ \E e \in futs :
          LET key == e[1]
              fp == e[2]
          IN  /\ read[key] # Missing
              /\ results' = results \o ScanIssues(key, read[key], advanced)
              /\ cache' = IF use_cache
                          THEN Dict([cache.map EXCEPT ![key] = StoredFingerprint(fp, disk[key])])
                          ELSE cache
              /\ futs' = futs \ {e}
              /\ hist' = [hist EXCEPT ![run].scanned = Append(@, key), ![run].read[key] = read[key]]
    /\ UNCHANGED <<disk, cache_file, use_cache, jobs, to_scan, run>>
    /\ UNCHANGED <<pc, text, issues, k>>
    /\ UNCHANGED <<fixVars, scanVars, extVars>>

\* checker.py lines 294-311: the rest of one iteration, after the read
SerialStore ==
    /\ pc = "serial"
    /\ k <= Len(to_scan)
    /\ LET key == to_scan[k][1]
           fp == to_scan[k][2]
       IN  /\ read[key] # Missing
           /\ results' = results \o ScanIssues(key, read[key], advanced)
           /\ cache' = IF use_cache
                       THEN Dict([cache.map EXCEPT ![key] = StoredFingerprint(fp, disk[key])])
                       ELSE cache
           /\ hist' = [hist EXCEPT ![run].scanned = Append(@, key), ![run].read[key] = read[key]]
    /\ k' = k + 1
    /\ UNCHANGED <<disk, cache_file, use_cache, jobs, to_scan, futs, run, pc, text, issues>>
    /\ UNCHANGED <<fixVars, scanVars, extVars>>

\* the files of the returned issues
FilesWithIssues == {results[j].file : j \in 1..Len(results)}

\* cli.py lines 289-313: with --fix or --fix-aggressive the files with issues
\* are read again, and those whose content apply_fixes changes are written;
\* an exception of check_paths leaves main before that
AutoFix ==
    /\ pc = "idle"
    /\ Len(fixed) < run
    /\ IF hist[run].outcome = "returned" /\ (args.fix \/ args.fix_aggressive) /\ results # <<>>
       THEN \E W \in SUBSET FilesWithIssues :
               /\ \A f \in W : disk[f].mtime < MaxStamp
               /\ disk' = [f \in Files |-> IF f \in W THEN [disk[f] EXCEPT !.mtime = @ + 1] ELSE disk[f]]
               /\ fixed' = Append(fixed, W)
       ELSE /\ disk' = disk
            /\ fixed' = Append(fixed, {})
    /\ UNCHANGED <<cache_file, use_cache, jobs, cache, to_scan, results, futs, run, hist>>
    /\ UNCHANGED <<args, files, advanced, read>>
    /\ UNCHANGED <<sharedVars, fixVars, scanVars>>
    /\ UNCHANGED <<provVars, detVars, regVars, poolVars, passVars, advVars>>

\* checker.py lines 242-247: check_paths called with its own parameters
StartListed ==
    /\ pc = "idle"
    /\ run < MaxRuns
    /\ \E uc \in BOOLEAN : \E j \in JobChoices : \E adv \in BOOLEAN : \E fs \in FileChoices :
          /\ use_cache' = uc
          /\ jobs' = j
          /\ advanced' = adv
          /\ files' = fs
          /\ cache' = IF uc THEN load_cache(cache_file) ELSE EmptyDict
          /\ hist' = Append(hist, [use_cache |-> uc, jobs |-> j, advanced |-> adv,
                                   files |-> fs, cache_file0 |-> cache_file, loaded |-> cache',
                                   fp |-> NothingYet, read |-> NothingYet, scanned |-> <<>>,
                                   outcome |-> "running", results |-> <<>>])
    /\ to_scan' = <<>>
    /\ results' = <<>>
    /\ read' = NothingYet
    /\ run' = run + 1
    /\ k' = 1
    /\ pc' = "fingerprint"
    /\ UNCHANGED <<disk, cache_file, futs, text, issues, args, fixed>>
    /\ UNCHANGED <<fixVars, scanVars, provVars, detVars, regVars, poolVars, passVars, advVars>>

NextMain ==
    \/ MainStart
    \/ FingerprintListed
    \/ SubmitAll
    \/ ReadFile
    \/ CollectRead
    \/ EnterSerial
    \/ SerialStore
    \/ SaveAndReturn
    \/ AutoFix

SpecMain == InitMain /\ [][NextMain]_vars

NextListed ==
    \/ StartListed
    \/ FingerprintListed
    \/ Modify
    \/ SubmitAll
    \/ ReadFile
    \/ CollectRead
    \/ EnterSerial
    \/ SerialStore
    \/ SaveAndReturn

SpecListed == InitMain /\ [][NextListed]_vars


\* call r of main was asked to rewrite files
FixMode(r) == hist[r].args.fix \/ hist[r].args.fix_aggressive

\* C25: whenever the CLI rewrites files (--fix or --fix-aggressive), the scan
\* that feeds the fixer runs with the cache disabled, so that every listed
\* file, also one the cache records as unchanged, is scanned.
\* Violated: with --fix-aggressive alone use_cache stays on (cli.py lines
\* 179-181 test args.fix only), a file the cache holds is skipped, no issue of
\* it is returned and the fixer has nothing to fix.
C25_FixScansWithoutCache ==
    \A r \in 1..Len(hist) :
        (hist[r].outcome = "returned" /\ FixMode(r))
            => /\ ~hist[r].use_cache
               /\ \A f \in hist[r].files : ScannedIn(r, f)


\* the cache file as call r left it
CacheFileAfter(r) == IF r = Len(hist) THEN cache_file ELSE hist[r + 1].cache_file0

\* the value call r found in the cache file: the JSON value the file held,
\* an empty map if it held none
ValueBefore(r) ==
    IF hist[r].cache_file0.kind \in {"dict", "list"} THEN hist[r].cache_file0 ELSE EmptyDict

\* C27: check_paths never removes or alters the cache entry of a path it does
\* not scan: after every call of a sequence that returned with use_cache, the
\* persisted map is the map found before with only the entries of the files
\* scanned in this call overwritten (by the fingerprint taken in this call);
\* the entries of skipped and of unlisted files are written back unchanged, and
\* a call without use_cache or one that raised leaves the cache file alone.
C27_UnscannedEntriesKept ==
    \A r \in 1..Len(hist) :
        (r < Len(hist) \/ pc = "idle") =>
            IF hist[r].outcome = "returned" /\ hist[r].use_cache
            THEN /\ CacheFileAfter(r).kind = ValueBefore(r).kind
                 /\ \A f \in Files :
                       CacheFileAfter(r).map[f] =
                           IF ScannedIn(r, f) THEN hist[r].fp[f] ELSE ValueBefore(r).map[f]
            ELSE CacheFileAfter(r) = hist[r].cache_file0

\* a call that returned with use_cache scanned file 2 and wrote its new
\* fingerprint, skipped nothing of file 1, which was not listed and had changed
\* since its entry was written: the entry of file 1 is still the old one
C27_Witness ==
    /\ pc = "idle" /\ run = 1
    /\ hist[1].outcome = "returned" /\ hist[1].use_cache
    /\ hist[1].files = {2}
    /\ hist[1].scanned = <<2>>
    /\ hist[1].cache_file0 = Dict([f \in Files |-> <<0, 0>>])
    /\ file_fingerprint(disk[1]) = <<1, 0>>
    /\ cache_file = Dict([f \in Files |-> IF f = 2 THEN <<1, 0>> ELSE <<0, 0>>])


\* call r listed file f and did not scan it
SkippedIn(r, f) == f \in hist[r].files /\ hist[r].fp[f] # Missing /\ ~ScannedIn(r, f)

\* C28: the fingerprint stored for a scanned file is the one computed before
\* the file was read, so a modification that lands between fingerprinting and
\* reading never causes a stale skip: the stored fingerprint then differs from
\* the fingerprint the file has afterwards and the next call that lists the
\* file scans it again; a later call skips a file only if the content the
\* earlier call read is the content the file still has.
C28_NoStaleSkip ==
    /\ \A r \in 1..Len(hist) : \A f \in Files :
          ((r < Len(hist) \/ pc = "idle") /\ hist[r].outcome = "returned" /\ hist[r].use_cache
             /\ ScannedIn(r, f))
              => /\ CacheFileAfter(r).map[f] = hist[r].fp[f]
                 /\ (hist[r].read[f] # hist[r].fp[f]
                        => CacheFileAfter(r).map[f] # hist[r].read[f])
    /\ \A f \in Files :
          (Len(hist) = 2 /\ pc = "idle" /\ hist[1].outcome = "returned" /\ hist[2].outcome = "returned"
             /\ hist[1].use_cache /\ hist[2].use_cache /\ ScannedIn(1, f) /\ f \in hist[2].files)
              => /\ (hist[1].read[f] # hist[1].fp[f] => ScannedIn(2, f))
                 /\ (SkippedIn(2, f) => hist[1].read[f] = hist[2].fp[f])

\* file 1 was fingerprinted, then modified, then read by the first call; the
\* second call found the older fingerprint in the cache and scanned the file
\* again
C28_Witness ==
    /\ pc = "idle" /\ Len(hist) = 2
    /\ hist[1].outcome = "returned" /\ hist[2].outcome = "returned"
    /\ hist[1].use_cache /\ hist[2].use_cache
    /\ hist[1].fp[1] = <<0, 0>> /\ hist[1].read[1] = <<1, 0>>
    /\ hist[2].loaded.map[1] = <<0, 0>>
    /\ hist[2].fp[1] = <<1, 0>>
    /\ ScannedIn(2, 1)
    /\ hist[2].read[1] = <<1, 0>>


\* the issues of file f in the list call r returned
ReturnedFor(r, f) == {j \in 1..Len(hist[r].results) : hist[r].results[j].file = f}

\* the files call r scanned
ScannedSet(r) == {f \in Files : ScannedIn(r, f)}

\* C29: the cache skip decision depends only on the path of the file and on
\* its (mtime, size) fingerprint: a call with use_cache skips a listed file
\* exactly when the loaded cache holds the fingerprint just taken, whatever the
\* detector options are; two calls that differ in the options but find the
\* same cache, the same listed files and the same fingerprints scan the same
\* files; and a call with advanced rules after one without returns no issue of
\* a file that is unchanged since the earlier call scanned it.
C29_SkipIgnoresOptions ==
    /\ \A r \in 1..Len(hist) :
          (hist[r].outcome = "returned" /\ hist[r].use_cache) =>
              \A f \in hist[r].files :
                  ScannedIn(r, f) <=> hist[r].loaded.map[f] # hist[r].fp[f]
    /\ (Len(hist) = 2 /\ hist[1].outcome = "returned" /\ hist[2].outcome = "returned"
          /\ hist[1].use_cache /\ hist[2].use_cache) =>
          /\ (hist[1].loaded = hist[2].loaded /\ hist[1].files = hist[2].files
                /\ hist[1].fp = hist[2].fp)
                 => ScannedSet(1) = ScannedSet(2)
          /\ \A f \in hist[2].files :
                (hist[2].advanced /\ ~hist[1].advanced /\ ScannedIn(1, f)
                   /\ hist[2].fp[f] = hist[1].fp[f])
                    => ReturnedFor(2, f) = {}

\* the first call, without advanced rules, scanned file 1 and returned one
\* issue; the second call, with advanced rules, found the file unchanged,
\* skipped it and returned nothing, although the advanced rules have an issue
\* to report for this content
C29_Witness ==
    /\ pc = "idle" /\ Len(hist) = 2
    /\ hist[1].outcome = "returned" /\ hist[2].outcome = "returned"
    /\ hist[1].use_cache /\ hist[2].use_cache
    /\ ~hist[1].advanced /\ hist[2].advanced
    /\ hist[1].files = {1} /\ hist[2].files = {1}
    /\ hist[1].results = ScanIssues(1, <<0, 0>>, FALSE)
    /\ hist[2].fp[1] = <<0, 0>>
    /\ SkippedIn(2, 1)
    /\ hist[2].results = <<>>
    /\ Len(ScanIssues(1, <<0, 0>>, TRUE)) = 2

====
